---- MODULE Spec2Model ----
(***************************************************************************)
(* Disclosure delta and validation pipeline of the finance-agent           *)
(* repository: the deterministic anomaly detector, the section comparator, *)
(* the cross validator, the cached multi-company analysis, the signal      *)
(* aggregation of the multi-agent pipeline and the fact store.             *)
(*                                                                         *)
(* Strings the code inspects character by character (value strings,        *)
(* quotes) are sequences of one-character strings.  Each component has its *)
(* own variables and its own specification; a specification keeps the      *)
(* variables of the other components at their idle values.                 *)
(***************************************************************************)
EXTENDS Integers, Sequences, FiniteSets, TLC

VARIABLES
    \* ---- agents/risk_agent.py: detect_anomalies
    facts,          \* the argument: a list of fact dicts
    anomalies,      \* the returned list
    an_pc,          \* "start" | "done"
    \* ---- disclosure_pipeline/src/analyzer.py: compare_sections
    section_name,   \* argument
    text_previous,  \* argument: a text (absent, or present with a length)
    text_current,   \* argument
    cs_pc,          \* "start" | "loop" | "returned" | "raised"
    cs_calls,       \* number of chain.invoke calls made
    cs_content,     \* content: response.content once the capability answered
    cs_todo,        \* candidates of parsed["changes"] not yet iterated
    cs_last,        \* ch: the candidate of the latest iteration, if any
    cs_results,     \* results
    seen_new,       \* seen_new
    seen_desc,      \* seen_desc
    \* ---- multiagent_analysis/agents/validation.py: validate_insights
    vi_insights,    \* insights: the SectionalInsight list, validated in place
    vi_text_curr,   \* text_curr: the current-quarter transcript
    vi_task,        \* per insight: "pending" | "skipped" | "validated" | "fallback"
    vi_pc,          \* "gather" | "done"
    vi_stats,       \* the statistics computed before returning
    \* ---- disclosure_pipeline/src/analyzer.py: analyze_all_companies
    parsed_data,    \* argument: the companies in dict order, each with its quarters
    dry_run,        \* argument
    cache_file,     \* the analysis cache on disk (ANALYSIS_CACHE_PATH)
    az_run,         \* which call of analyze_all_companies this is (1, 2, ...)
    az_pc,          \* "start" | "workers" | "dedup" | "returned" | "raised"
    cache,          \* cache: the dict loaded from the file
    results,        \* results
    pairs_to_analyze,
    cache_hits,
    tasks,          \* per scheduled pair and section: the compare_sections task
    final,          \* final: the deduplicated records
    verdict,        \* the verdict returned with them
    az_error,       \* the exception that ended the call, "none" if none
    prev_run,       \* what the previous call computed and returned
    \* ---- multiagent_analysis/pipeline.py: run_pipeline, steps 2 to 6
    rp_pc,          \* "extract" | "compare" | "validate" | "done"
    rp_agents,      \* per quarter and section: the thematic agent's analyze task
    rp_compare,     \* per thematic section: the compare_section task
    rp_insights,    \* insights
    rp_validate,    \* per insight: the validate_section task
    rp_overall,     \* (overall_score, overall_signal)
    \* ---- core/financial_memory.py: save_facts
    fs_file,        \* MEMORY_PATH on disk
    fs_cached,      \* _cached_facts: None or a reference to a list
    fs_heap,        \* the list objects, by reference
    fs_pc,          \* per writer: the position in save_facts
    fs_existing,    \* per writer: the reference load_facts returned
    \* ---- disclosure_pipeline/src/analyzer.py: detect_regime
    rg_text,        \* argument
    rg_pc,          \* "call" | "returned"
    rg_regime,      \* the returned regime
    \* ---- control/control_plane.py and control/research_replay.py
    ss_files,       \* data/sessions: session id -> the session saved under it
    ss_count,       \* how many ResearchSession objects were created (one uuid each)
    ss_issued,      \* the ids of the sessions run_research_task returned to a caller
    ss_returned     \* what the latest call returned or raised

anVars == <<facts, anomalies, an_pc>>
csVars == <<section_name, text_previous, text_current, cs_pc, cs_calls, cs_content, cs_todo,
            cs_last, cs_results, seen_new, seen_desc>>

viVars == <<vi_insights, vi_text_curr, vi_task, vi_pc, vi_stats>>

azVars == <<parsed_data, dry_run, cache_file, az_run, az_pc, cache, results,
            pairs_to_analyze, cache_hits, tasks, final, verdict, az_error, prev_run>>

rpVars == <<rp_pc, rp_agents, rp_compare, rp_insights, rp_validate, rp_overall>>

fsVars == <<fs_file, fs_cached, fs_heap, fs_pc, fs_existing>>

rgVars == <<rg_text, rg_pc, rg_regime>>

ssVars == <<ss_files, ss_count, ss_issued, ss_returned>>

vars == <<anVars, csVars, viVars, azVars, rpVars, fsVars, rgVars, ssVars>>

\* What the steps of one component leave alone: the other components
anOthers == <<csVars, viVars, azVars, rpVars, fsVars, rgVars, ssVars>>
csOthers == <<anVars, viVars, azVars, rpVars, fsVars, rgVars, ssVars>>
viOthers == <<anVars, csVars, azVars, rpVars, fsVars, rgVars, ssVars>>
azOthers == <<anVars, csVars, viVars, rpVars, fsVars, rgVars, ssVars>>
rpOthers == <<anVars, csVars, viVars, azVars, fsVars, rgVars, ssVars>>
fsOthers == <<anVars, csVars, viVars, azVars, rpVars, rgVars, ssVars>>
rgOthers == <<anVars, csVars, viVars, azVars, rpVars, fsVars, ssVars>>
ssOthers == <<anVars, csVars, viVars, azVars, rpVars, fsVars, rgVars>>

\* ------------------------------------------------------------------------
\* Generic helpers for Python str / list operations
\* ------------------------------------------------------------------------

SetMin(S) == CHOOSE x \in S : \A y \in S : x <= y

RECURSIVE Sorted(_)
\* sorted(S) for a finite set of integers
Sorted(S) == IF S = {} THEN <<>> ELSE <<SetMin(S)>> \o Sorted(S \ {SetMin(S)})

\* str.replace(c, '') for each c of a set of characters
RemoveChars(s, cs) == SelectSeq(s, LAMBDA c : c \notin cs)

Whitespace == {" "}

RECURSIVE LStrip(_)
LStrip(s) == IF s # <<>> /\ Head(s) \in Whitespace THEN LStrip(Tail(s)) ELSE s

RECURSIVE RStrip(_)
RStrip(s) ==
    IF s # <<>> /\ s[Len(s)] \in Whitespace THEN RStrip(SubSeq(s, 1, Len(s) - 1)) ELSE s

\* str.strip()
Strip(s) == RStrip(LStrip(s))

\* ------------------------------------------------------------------------
\* agents/risk_agent.py
\* ------------------------------------------------------------------------

Digits == {"0", "1", "2", "3", "4", "5", "6", "7", "8", "9"}

DigitVal(c) ==
    CASE c = "0" -> 0 [] c = "1" -> 1 [] c = "2" -> 2 [] c = "3" -> 3 [] c = "4" -> 4
      [] c = "5" -> 5 [] c = "6" -> 6 [] c = "7" -> 7 [] c = "8" -> 8 [] c = "9" -> 9

RECURSIVE DigitsVal(_)
DigitsVal(s) == IF s = <<>> THEN 0 ELSE 10 * DigitsVal(SubSeq(s, 1, Len(s) - 1)) + DigitVal(s[Len(s)])

\* float(clean) on the integer literals the model draws: an optional sign and
\* one or more digits; anything else is a ValueError.
IsNumber(s) ==
    LET body == IF s # <<>> /\ Head(s) \in {"-", "+"} THEN Tail(s) ELSE s
    IN  body # <<>> /\ \A i \in DOMAIN body : body[i] \in Digits

NumberVal(s) ==
    IF Head(s) = "-" THEN 0 - DigitsVal(Tail(s))
    ELSE IF Head(s) = "+" THEN DigitsVal(Tail(s))
    ELSE DigitsVal(s)

\* parse_value: strip '$', ',' and '%', then float(); ValueError -> 0.0
parse_value(val_str) ==
    LET clean == Strip(RemoveChars(val_str, {"$", ",", "%"}))
    IN  IF IsNumber(clean) THEN NumberVal(clean) ELSE 0

DROP_PCT == 5
SPIKE_PCT == 20

\* change_pct < t and change_pct > t for change_pct = ((v_curr - v_prev) / v_prev) * 100,
\* v_prev # 0, in exact arithmetic
PctBelow(v_curr, v_prev, t) ==
    IF v_prev > 0 THEN (v_curr - v_prev) * 100 < t * v_prev
    ELSE (v_curr - v_prev) * 100 > t * v_prev

PctAbove(v_curr, v_prev, t) ==
    IF v_prev > 0 THEN (v_curr - v_prev) * 100 > t * v_prev
    ELSE (v_curr - v_prev) * 100 < t * v_prev

Anomaly(kind, company, metric, y_prev, y_curr, v_curr, v_prev) ==
    [kind |-> kind, company |-> company, metric |-> metric,
     y_prev |-> y_prev, y_curr |-> y_curr, v_curr |-> v_curr, v_prev |-> v_prev]

\* PairAnomalies with the thresholds included (<= -5, >= +20)
PairAnomaliesInclusive(company, metric, y_prev, y_curr, s_prev, s_curr) ==
    LET v_prev == parse_value(s_prev)
        v_curr == parse_value(s_curr)
    IN  IF v_prev = 0 THEN <<>>
        ELSE IF ~PctAbove(v_curr, v_prev, 0 - DROP_PCT)
             THEN <<Anomaly("NEGATIVE DRIFT", company, metric, y_prev, y_curr, v_curr, v_prev)>>
        ELSE IF ~PctBelow(v_curr, v_prev, SPIKE_PCT)
             THEN <<Anomaly("SPIKE", company, metric, y_prev, y_curr, v_curr, v_prev)>>
        ELSE <<>>

\* PairAnomalies without the guard on a zero previous value
PairAnomaliesNoZeroGuard(company, metric, y_prev, y_curr, s_prev, s_curr) ==
    LET v_prev == parse_value(s_prev)
        v_curr == parse_value(s_curr)
    IN  IF PctBelow(v_curr, v_prev, 0 - DROP_PCT)
             THEN <<Anomaly("NEGATIVE DRIFT", company, metric, y_prev, y_curr, v_curr, v_prev)>>
        ELSE IF PctAbove(v_curr, v_prev, SPIKE_PCT)
             THEN <<Anomaly("SPIKE", company, metric, y_prev, y_curr, v_curr, v_prev)>>
        ELSE <<>>

\* One iteration of the inner loop: the anomalies appended for one adjacent pair
PairAnomalies(company, metric, y_prev, y_curr, s_prev, s_curr) ==
    LET v_prev == parse_value(s_prev)
        v_curr == parse_value(s_curr)
    IN  IF v_prev = 0 THEN <<>>
        ELSE IF PctBelow(v_curr, v_prev, 0 - DROP_PCT)
             THEN <<Anomaly("NEGATIVE DRIFT", company, metric, y_prev, y_curr, v_curr, v_prev)>>
        ELSE IF PctAbove(v_curr, v_prev, SPIKE_PCT)
             THEN <<Anomaly("SPIKE", company, metric, y_prev, y_curr, v_curr, v_prev)>>
        ELSE <<>>

FactKey(f) == <<f.company, f.metric>>

\* The keys of the history dict in insertion order (first occurrence in facts)
RECURSIVE HistoryKeys(_)
HistoryKeys(fs) ==
    IF fs = <<>> THEN <<>>
    ELSE LET init == HistoryKeys(SubSeq(fs, 1, Len(fs) - 1))
             k == FactKey(fs[Len(fs)])
         IN  IF \E i \in DOMAIN init : init[i] = k THEN init ELSE Append(init, k)

\* history[key]: the years of the group, and the value string kept for a year
\* (a later fact of the same key and year overwrites an earlier one)
HistoryYears(fs, k) == {fs[i].year : i \in {j \in DOMAIN fs : FactKey(fs[j]) = k}}

HistoryValue(fs, k, y) ==
    LET idx == {j \in DOMAIN fs : FactKey(fs[j]) = k /\ fs[j].year = y}
    IN  fs[CHOOSE j \in idx : \A i \in idx : i <= j].value

RECURSIVE GroupAnomalies(_, _, _, _)
\* The inner loop over range(len(sorted_years) - 1), from index i
GroupAnomalies(fs, k, sorted_years, i) ==
    IF i >= Len(sorted_years) THEN <<>>
    ELSE PairAnomalies(k[1], k[2], sorted_years[i], sorted_years[i + 1],
                       HistoryValue(fs, k, sorted_years[i]),
                       HistoryValue(fs, k, sorted_years[i + 1]))
         \o GroupAnomalies(fs, k, sorted_years, i + 1)

RECURSIVE AllAnomalies(_, _, _)
\* The outer loop over history.items(), from index g of the keys
AllAnomalies(fs, keys, g) ==
    IF g > Len(keys) THEN <<>>
    ELSE LET sorted_years == Sorted(HistoryYears(fs, keys[g]))
         IN  (IF Len(sorted_years) < 2 THEN <<>>
              ELSE GroupAnomalies(fs, keys[g], sorted_years, 1))
             \o AllAnomalies(fs, keys, g + 1)

detect_anomalies(fs) == AllAnomalies(fs, HistoryKeys(fs), 1)

\* ------------------------------------------------------------------------
\* disclosure_pipeline/src/analyzer.py: regimes and compare_sections
\* ------------------------------------------------------------------------

ACCOUNTING_KEYWORDS ==
    { <<"m", "o", "d", "e", "l">>,
      <<"p", "o", "l", "i", "c", "y">>,
      <<"p", "r", "o", "v", "i", "s", "i", "o", "n">>,
      <<"i", "m", "p", "a", "i", "r", "m", "e", "n", "t">>,
      <<"r", "e", "c", "o", "g", "n", "i", "t", "i", "o", "n">>,
      <<"p", "d">>,
      <<"l", "g", "d">>,
      <<"e", "a", "d">>,
      <<"a", "m", "o", "r", "t", "i", "z", "a", "t", "i", "o", "n">>,
      <<"d", "e", "p", "r", "e", "c", "i", "a", "t", "i", "o", "n">>,
      <<"e", "x", "p", "e", "c", "t", "e", "d", " ", "c", "r", "e", "d", "i", "t", " ", "l", "o", "s", "s">>,
      <<"e", "c", "l">>,
      <<"m", "e", "t", "h", "o", "d", "o", "l", "o", "g", "y">> }

GUIDANCE_KEYWORDS ==
    { <<"e", "x", "p", "e", "c", "t">>,
      <<"e", "s", "t", "i", "m", "a", "t", "e">>,
      <<"g", "u", "i", "d", "a", "n", "c", "e">>,
      <<"o", "u", "t", "l", "o", "o", "k">>,
      <<"f", "o", "r", "e", "c", "a", "s", "t">>,
      <<"w", "e", " ", "b", "e", "l", "i", "e", "v", "e">>,
      <<"t", "a", "r", "g", "e", "t">>,
      <<"c", "o", "r", "r", "i", "d", "o", "r">> }

ONE_TIME_KEYWORDS ==
    { <<"o", "n", "e", "-", "t", "i", "m", "e">>,
      <<"e", "x", "c", "e", "p", "t", "i", "o", "n", "a", "l">>,
      <<"a", "n", "n", "u", "a", "l", " ", "e", "x", "e", "r", "c", "i", "s", "e">>,
      <<"c", "o", "u", "r", "t", " ", "o", "r", "d", "e", "r">>,
      <<"i", "p", "o">>,
      <<"s", "p", "i", "n", "-", "o", "f", "f">>,
      <<"d", "i", "v", "e", "s", "t", "m", "e", "n", "t">>,
      <<"t", "a", "x", " ", "r", "e", "v", "e", "r", "s", "a", "l">>,
      <<"m", "o", "d", "e", "l", " ", "r", "e", "f", "r", "e", "s", "h">> }

UpperLetters ==
    <<"A", "B", "C", "D", "E", "F", "G", "H", "I", "J", "K", "L", "M",
      "N", "O", "P", "Q", "R", "S", "T", "U", "V", "W", "X", "Y", "Z">>
LowerLetters ==
    <<"a", "b", "c", "d", "e", "f", "g", "h", "i", "j", "k", "l", "m",
      "n", "o", "p", "q", "r", "s", "t", "u", "v", "w", "x", "y", "z">>

LowerChar(c) ==
    IF \E i \in DOMAIN UpperLetters : UpperLetters[i] = c
    THEN LowerLetters[CHOOSE i \in DOMAIN UpperLetters : UpperLetters[i] = c]
    ELSE c

\* str.lower()
Lower(s) == [i \in DOMAIN s |-> LowerChar(s[i])]

\* k in t, for strings
Contains(t, k) ==
    \E i \in 0..(Len(t) - Len(k)) : SubSeq(t, i + 1, i + Len(k)) = k

AnyKeyword(t, keywords) == \E k \in keywords : Contains(t, k)

\* detect_regime with the guidance test before the one-time test
detect_regime_guidance_first(text) ==
    LET t == Lower(text)
    IN  IF AnyKeyword(t, ACCOUNTING_KEYWORDS) THEN "ACCOUNTING"
        ELSE IF AnyKeyword(t, GUIDANCE_KEYWORDS) THEN "GUIDANCE"
        ELSE IF AnyKeyword(t, ONE_TIME_KEYWORDS) THEN "ONE_TIME"
        ELSE "OPERATING"

detect_regime(text) ==
    LET t == Lower(text)
    IN  IF AnyKeyword(t, ACCOUNTING_KEYWORDS) THEN "ACCOUNTING"
        ELSE IF AnyKeyword(t, ONE_TIME_KEYWORDS) THEN "ONE_TIME"
        ELSE IF AnyKeyword(t, GUIDANCE_KEYWORDS) THEN "GUIDANCE"
        ELSE "OPERATING"

is_comparable(quote_old, quote_new) == detect_regime(quote_old) = detect_regime(quote_new)

\* downgrade_signal that keeps the proposed signal
downgrade_signal_keep(signal, quote_new) == signal

downgrade_signal(signal, quote_new) ==
    IF AnyKeyword(Lower(quote_new), ONE_TIME_KEYWORDS) THEN "Noise" ELSE signal

\* SignalClassification(signal_val), ValueError -> NOISE
SignalValues == {"Positive", "Negative", "Noise"}
ToSignal(signal_val) == IF signal_val \in SignalValues THEN signal_val ELSE "Noise"

MIN_SECTION_LENGTH == 100

\* A section text: absent (None), or a string of the given length
NoText == [present |-> FALSE, len |-> 0]
TextOfLen(n) == [present |-> TRUE, len |-> n]

\* TooShort without the minimum length: only a missing or empty text is skipped
TooShortEmptyOnly(text) == ~text.present \/ text.len = 0

\* not text or len(text) < MIN_SECTION_LENGTH
TooShort(text) == ~text.present \/ text.len = 0 \/ text.len < MIN_SECTION_LENGTH

DisclosureChange(section, quote_old, quote_new, desc, signal) ==
    [section |-> section, quote_old |-> quote_old, quote_new |-> quote_new,
     description_of_change |-> desc, signal_classification |-> signal]

\* The state of the loop over parsed["changes"]
LoopState(res, sn, sd) == [results |-> res, seen_new |-> sn, seen_desc |-> sd]

\* ProcessChange without the test of line 198: a record is built whatever
\* its quotes hold
ProcessChangeNoEmptyCheck(section, st, ch) ==
    LET quote_old == Strip(ch.quote_old)
        quote_new == Strip(ch.quote_new)
        desc == Strip(ch.description_of_change)
        signal == ToSignal(ch.signal_classification)
    IN  IF ~is_comparable(quote_old, quote_new) THEN st
        ELSE IF Lower(quote_new) \in st.seen_new \/ Lower(desc) \in st.seen_desc THEN st
        ELSE LoopState(
                 Append(st.results,
                        DisclosureChange(section, quote_old, quote_new, desc,
                                         downgrade_signal(signal, quote_new))),
                 st.seen_new \cup {Lower(quote_new)},
                 st.seen_desc \cup {Lower(desc)})

\* ProcessChange without the regime comparability gate
ProcessChangeNoRegimeGate(section, st, ch) ==
    LET quote_old == Strip(ch.quote_old)
        quote_new == Strip(ch.quote_new)
        desc == Strip(ch.description_of_change)
        signal == ToSignal(ch.signal_classification)
    IN  IF quote_old = <<>> \/ quote_new = <<>> THEN st
        ELSE IF Lower(quote_new) \in st.seen_new \/ Lower(desc) \in st.seen_desc THEN st
        ELSE LoopState(
                 Append(st.results,
                        DisclosureChange(section, quote_old, quote_new, desc,
                                         downgrade_signal(signal, quote_new))),
                 st.seen_new \cup {Lower(quote_new)},
                 st.seen_desc \cup {Lower(desc)})

\* One iteration of the loop over parsed.get("changes", [])
ProcessChange(section, st, ch) ==
    LET quote_old == Strip(ch.quote_old)
        quote_new == Strip(ch.quote_new)
        desc == Strip(ch.description_of_change)
        signal == ToSignal(ch.signal_classification)
    IN  IF quote_old = <<>> \/ quote_new = <<>> THEN st
        ELSE IF ~is_comparable(quote_old, quote_new) THEN st
        ELSE IF Lower(quote_new) \in st.seen_new \/ Lower(desc) \in st.seen_desc THEN st
        ELSE LoopState(
                 Append(st.results,
                        DisclosureChange(section, quote_old, quote_new, desc,
                                         downgrade_signal(signal, quote_new))),
                 st.seen_new \cup {Lower(quote_new)},
                 st.seen_desc \cup {Lower(desc)})

\* lines 180-181: no {...} block -> {"changes": []}; json.loads raises on a
\* malformed block; otherwise the changes the block lists are found
ParseContent(content) ==
    [error |-> content.has_block /\ ~content.well_formed,
     found |-> content.has_block /\ content.well_formed]

RECURSIVE ProcessChanges(_, _, _)
\* The whole loop, from loop state st
ProcessChanges(section, st, changes) ==
    IF changes = <<>> THEN st
    ELSE ProcessChanges(section, ProcessChange(section, st, Head(changes)), Tail(changes))


\* ---- inputs of detect_anomalies
MaxFacts == 3

Companies == {"A", "B"}
Metrics == {"Revenue"}
Years == {2023, 2024, 2025}
ValueStrings ==
    { <<"$", "1", "0", "0">>,        \* "$100"
      <<"$", "9", "5">>,             \* "$95"
      <<"1", "2", "0", "%">>,        \* "120%"
      <<"$", "0">>,                  \* "$0"
      <<"N", "/", "A">> }            \* "N/A"

\* Company A reports every value in every year; company B, a second group,
\* reports "$100" or "$0" in the first two years.
FactPool ==
    [company : {"A"}, metric : Metrics, year : Years, value : ValueStrings]
    \cup [company : {"B"}, metric : Metrics, year : {2023, 2024},
          value : {<<"$", "1", "0", "0">>, <<"$", "0">>}]

SeqsUpTo(S, n) == UNION {[1..m -> S] : m \in 0..n}

AnomalyInputs ==
    /\ facts \in SeqsUpTo(FactPool, MaxFacts)
    /\ anomalies = <<>>
    /\ an_pc = "start"

AnomalyIdle ==
    /\ facts = <<>>
    /\ anomalies = <<>>
    /\ an_pc = "idle"

DetectAnomalies ==
    /\ an_pc = "start"
    /\ anomalies' = detect_anomalies(facts)
    /\ an_pc' = "done"
    /\ UNCHANGED facts
    /\ UNCHANGED anOthers

NextAnomaly == DetectAnomalies


\* ---- inputs and steps of compare_sections
MaxChanges == 2

Sections == {"MD&A", "Risk_Factors", "Accounting"}

TextPool == {NoText, TextOfLen(0), TextOfLen(40), TextOfLen(99), TextOfLen(100)}

QuoteOldPool ==
    { <<>>,
      <<"p", "d">>,                               \* ACCOUNTING
      <<"o", "k">> }                              \* OPERATING
QuoteNewPool ==
    { <<" ">>,
      <<" ", "P", "D", " ">>,                     \* ACCOUNTING, upper case, padded
      <<"p", "d">>,                               \* ACCOUNTING
      <<"p", "d", " ", "i", "p", "o">>,           \* ACCOUNTING, holds a one-time keyword
      <<"o", "k">> }                              \* OPERATING
DescPool == { <<"a">>, <<"A">>, <<"b">> }
\* A value of SignalClassification, and one that is none
SignalPool == {"Positive", "Neutral"}

\* One element of parsed["changes"]
CandidatePool ==
    [quote_old : QuoteOldPool, quote_new : QuoteNewPool,
     description_of_change : DescPool, signal_classification : SignalPool]

\* response.content as the parse sees it: whether re.search(r"\{.*\}") finds a
\* block, whether json.loads accepts the block, and how many changes it lists
ContentPool == [has_block : BOOLEAN, well_formed : BOOLEAN, n : 0..MaxChanges]

CompareInputs ==
    /\ section_name \in Sections
    /\ text_previous \in TextPool
    /\ text_current \in TextPool
    /\ cs_pc = "start"
    /\ cs_calls = 0
    /\ cs_content = <<>>
    /\ cs_todo = 0
    /\ cs_last = <<>>
    /\ cs_results = <<>>
    /\ seen_new = {}
    /\ seen_desc = {}

CompareIdle ==
    /\ section_name = "MD&A"
    /\ text_previous = NoText
    /\ text_current = NoText
    /\ cs_pc = "idle"
    /\ cs_calls = 0
    /\ cs_content = <<>>
    /\ cs_todo = 0
    /\ cs_last = <<>>
    /\ cs_results = <<>>
    /\ seen_new = {}
    /\ seen_desc = {}

\* lines 141-144: a missing or short text returns [] before any call
CsSkipShort ==
    /\ cs_pc = "start"
    /\ TooShort(text_previous) \/ TooShort(text_current)
    /\ cs_pc' = "returned"
    /\ UNCHANGED <<section_name, text_previous, text_current, cs_calls, cs_content, cs_todo,
                   cs_last, cs_results, seen_new, seen_desc>>
    /\ UNCHANGED csOthers

\* line 172: chain.invoke raises (timeout, rate limit); nothing catches it
CsInvokeRaises ==
    /\ cs_pc = "start"
    /\ ~(TooShort(text_previous) \/ TooShort(text_current))
    /\ cs_calls' = cs_calls + 1
    /\ cs_pc' = "raised"
    /\ UNCHANGED <<section_name, text_previous, text_current, cs_content, cs_todo,
                   cs_last, cs_results, seen_new, seen_desc>>
    /\ UNCHANGED csOthers

\* lines 172-185: chain.invoke answers and the content is parsed
CsInvokeParse ==
    /\ cs_pc = "start"
    /\ ~(TooShort(text_previous) \/ TooShort(text_current))
    /\ cs_calls' = cs_calls + 1
    /\ \E content \in ContentPool :
           LET parsed == ParseContent(content)
           IN  /\ cs_content' = <<content>>
               /\ cs_pc' = IF parsed.error THEN "raised" ELSE "loop"
               /\ cs_todo' = IF parsed.found THEN content.n ELSE 0
    /\ UNCHANGED <<section_name, text_previous, text_current,
                   cs_last, cs_results, seen_new, seen_desc>>
    /\ UNCHANGED csOthers

\* lines 187-223: one iteration; the candidate is drawn when the loop reaches it
CsIterate ==
    /\ cs_pc = "loop"
    /\ cs_todo > 0
    /\ \E ch \in CandidatePool :
           LET st == ProcessChange(section_name,
                                   LoopState(cs_results, seen_new, seen_desc), ch)
           IN  /\ cs_last' = <<ch>>
               /\ cs_results' = st.results
               /\ seen_new' = st.seen_new
               /\ seen_desc' = st.seen_desc
    /\ cs_todo' = cs_todo - 1
    /\ UNCHANGED <<section_name, text_previous, text_current, cs_pc, cs_calls, cs_content>>
    /\ UNCHANGED csOthers

\* line 225
CsReturn ==
    /\ cs_pc = "loop"
    /\ cs_todo = 0
    /\ cs_pc' = "returned"
    /\ UNCHANGED <<section_name, text_previous, text_current, cs_calls, cs_content, cs_todo,
                   cs_last, cs_results, seen_new, seen_desc>>
    /\ UNCHANGED csOthers

NextCompare == CsSkipShort \/ CsInvokeRaises \/ CsInvokeParse \/ CsIterate \/ CsReturn




\* ------------------------------------------------------------------------
\* multiagent_analysis/agents/validation.py
\* ------------------------------------------------------------------------

\* MetricDelta (models.py), scores in tenths; validation_status and
\* validation_note start at their defaults
MetricDelta(subtopic, quote_old, quote_new, cls, score) ==
    [subtopic |-> subtopic, quote_old |-> quote_old, quote_new |-> quote_new,
     signal_classification |-> cls, signal_score |-> score,
     validation_status |-> "verified", validation_note |-> <<>>]

\* result_map.get(subtopic): the last result of the report for the subtopic
HasResult(report, subtopic) == \E j \in DOMAIN report : report[j].subtopic = subtopic

ResultFor(report, subtopic) ==
    LET idx == {j \in DOMAIN report : report[j].subtopic = subtopic}
    IN  report[CHOOSE j \in idx : \A i \in idx : i <= j]

\* lines 114-134 for one metric
ApplyResult(metric, report) ==
    IF ~HasResult(report, metric.subtopic) THEN metric
    ELSE LET val == ResultFor(report, metric.subtopic)
         IN  [metric EXCEPT
                 !.validation_status = val.status,
                 !.validation_note = val.reason,
                 !.quote_old = IF val.corrected_quote_old # <<>>
                               THEN val.corrected_quote_old ELSE @,
                 !.quote_new = IF val.corrected_quote_new # <<>>
                               THEN val.corrected_quote_new ELSE @]

\* The report applied, the metrics marked removed left out of the list
ApplyReportDroppingRemoved(metrics, report) ==
    SelectSeq([i \in DOMAIN metrics |-> ApplyResult(metrics[i], report)],
              LAMBDA m : m.validation_status # "removed")

\* lines 110-136: the report applied to every metric, all metrics kept
ApplyReport(metrics, report) == [i \in DOMAIN metrics |-> ApplyResult(metrics[i], report)]

\* validation_note of the local check: which signal disagreed with its score
LocalNote(cls) == <<"Signal is", cls, "but score is">>

\* _local_consistency_check for one metric
LocalCheck(m) ==
    IF m.signal_classification = "Positive" /\ m.signal_score < 0
    THEN [m EXCEPT !.validation_status = "flagged", !.validation_note = LocalNote("Positive")]
    ELSE IF m.signal_classification = "Negative" /\ m.signal_score > 0
    THEN [m EXCEPT !.validation_status = "flagged", !.validation_note = LocalNote("Negative")]
    ELSE m

_local_consistency_check(metrics) == [i \in DOMAIN metrics |-> LocalCheck(metrics[i])]

\* lines 187-199: total, verified, flagged-or-removed, and the score in tenths
\* of a percent
AllMetrics(insights) ==
    {<<i, j>> \in (DOMAIN insights) \X (1..8) : j \in DOMAIN insights[i].metrics}

ValidationStats(insights) ==
    LET all == AllMetrics(insights)
        total == Cardinality(all)
        verified == Cardinality({p \in all :
                        insights[p[1]].metrics[p[2]].validation_status = "verified"})
        flagged == Cardinality({p \in all :
                        insights[p[1]].metrics[p[2]].validation_status \in {"flagged", "removed"}})
    IN  [total |-> total, verified |-> verified, flagged |-> flagged,
         validation_score |-> IF total > 0 THEN (verified * 2000 + total) \div (2 * total)
                              ELSE 1000]

\* ---- inputs and steps of validate_insights
MaxMetrics == 2

Subtopics == {"Revenue Growth", "Margin"}

TextCurr == <<"revenue", "grew", "18", "%">>
NumberTokens == {"18", "20"}
NumbersIn(text) == {text[i] : i \in DOMAIN text} \cap NumberTokens

QuoteOldOf(subtopic) == <<"revenue", "grew">>
\* the Revenue Growth quote holds a number the transcript does not
QuoteNewOf(subtopic) ==
    IF subtopic = "Revenue Growth" THEN <<"grew", "20", "%">> ELSE <<"grew", "18", "%">>

\* classification and score (tenths): agreeing and disagreeing combinations
SignalScorePool ==
    { <<"Positive", 30>>, <<"Positive", 0>>, <<"Positive", -30>>,
      <<"Negative", 30>>, <<"Noise", 0>>, <<"Noise", 30>> }

MetricPool ==
    {MetricDelta(st, QuoteOldOf(st), QuoteNewOf(st), ss[1], ss[2]) :
        st \in Subtopics, ss \in SignalScorePool}

\* A second insight, when present, holds one metric
SecondInsightPool ==
    { <<>>,
      <<[section_name |-> "Capital & Liquidity",
         metrics |-> <<MetricDelta("Margin", QuoteOldOf("Margin"), QuoteNewOf("Margin"),
                                   "Noise", 30)>>]>> }

\* MetricValidation results the validating capability may return: verified,
\* flagged with or without a corrected quote, removed
ValidationPool ==
    {[subtopic |-> st, status |-> v[1], reason |-> v[2],
      corrected_quote_old |-> <<>>, corrected_quote_new |-> v[3]] :
        st \in Subtopics,
        v \in { <<"verified", <<>>, <<>> >>,
                <<"flagged", <<"issue">>, <<>> >>,
                <<"flagged", <<"issue">>, <<"grew", "18", "%">> >>,
                <<"removed", <<"issue">>, <<>> >> }}

\* ValidationReport.results: none, one or two results
ReportPool == {<<>>} \cup {<<a>> : a \in ValidationPool}
                     \cup {<<a, b>> : a \in ValidationPool, b \in ValidationPool}

ValidateInputs ==
    /\ \E ms \in SeqsUpTo(MetricPool, MaxMetrics), rest \in SecondInsightPool :
           /\ Len(ms) + Len(rest) <= MaxMetrics
           /\ vi_insights = <<[section_name |-> "Revenue & Growth", metrics |-> ms]>> \o rest
    /\ vi_text_curr = TextCurr
    /\ vi_task = [i \in DOMAIN vi_insights |-> "pending"]
    /\ vi_pc = "gather"
    /\ vi_stats = [total |-> 0, verified |-> 0, flagged |-> 0, validation_score |-> 0]

ValidateIdle ==
    /\ vi_insights = <<>>
    /\ vi_text_curr = <<>>
    /\ vi_task = <<>>
    /\ vi_pc = "idle"
    /\ vi_stats = [total |-> 0, verified |-> 0, flagged |-> 0, validation_score |-> 0]

\* validate_section, lines 138-141: the capability call raised
VsCapabilityFails ==
    /\ vi_pc = "gather"
    /\ \E i \in DOMAIN vi_insights :
           /\ vi_task[i] = "pending"
           /\ vi_insights[i].metrics # <<>>
           /\ vi_insights' = [vi_insights EXCEPT
                                 ![i].metrics = _local_consistency_check(@)]
           /\ vi_task' = [vi_task EXCEPT ![i] = "fallback"]
    /\ UNCHANGED <<vi_text_curr, vi_pc, vi_stats>>
    /\ UNCHANGED viOthers

\* validate_section, lines 73-74: nothing to validate
VsNoMetrics ==
    /\ vi_pc = "gather"
    /\ \E i \in DOMAIN vi_insights :
           /\ vi_task[i] = "pending"
           /\ vi_insights[i].metrics = <<>>
           /\ vi_task' = [vi_task EXCEPT ![i] = "skipped"]
    /\ UNCHANGED <<vi_insights, vi_text_curr, vi_pc, vi_stats>>
    /\ UNCHANGED viOthers

\* validate_section, lines 102-136: the capability returned a report
VsCapabilityAnswers ==
    /\ vi_pc = "gather"
    /\ \E i \in DOMAIN vi_insights, report \in ReportPool :
           /\ vi_task[i] = "pending"
           /\ vi_insights[i].metrics # <<>>
           /\ vi_insights' = [vi_insights EXCEPT ![i].metrics = ApplyReport(@, report)]
           /\ vi_task' = [vi_task EXCEPT ![i] = "validated"]
    /\ UNCHANGED <<vi_text_curr, vi_pc, vi_stats>>
    /\ UNCHANGED viOthers

\* validate_insights, lines 178-202: every task has finished
ViReturn ==
    /\ vi_pc = "gather"
    /\ \A i \in DOMAIN vi_insights : vi_task[i] # "pending"
    /\ vi_stats' = ValidationStats(vi_insights)
    /\ vi_pc' = "done"
    /\ UNCHANGED <<vi_insights, vi_text_curr, vi_task>>
    /\ UNCHANGED viOthers

NextValidate == VsCapabilityFails \/ VsNoMetrics \/ VsCapabilityAnswers \/ ViReturn

\* ------------------------------------------------------------------------
\* disclosure_pipeline/src/analyzer.py: cache and analyze_all_companies
\* ------------------------------------------------------------------------

\* sections = ["MD&A", "Risk_Factors", "Accounting"]
SectionSeq == <<"MD&A", "Risk_Factors", "Accounting">>

\* A reply of the extraction capability to one chain.invoke: it raises, or
\* it returns a content holding a list of changes
Reply(raises, has_block, well_formed, changes) ==
    [raises |-> raises,
     content |-> [has_block |-> has_block, well_formed |-> well_formed, changes |-> changes]]

\* compare_sections as one call: what it returns, whether it raised, whether
\* it called the capability
compare_sections(section, text_prev, text_curr, reply) ==
    IF TooShort(text_prev) \/ TooShort(text_curr)
    THEN [state |-> "returned", called |-> FALSE, results |-> <<>>]
    ELSE IF reply.raises
    THEN [state |-> "raised", called |-> TRUE, results |-> <<>>]
    ELSE LET parsed == ParseContent(reply.content)
         IN  IF parsed.error
             THEN [state |-> "raised", called |-> TRUE, results |-> <<>>]
             ELSE [state |-> "returned", called |-> TRUE,
                   results |->
                       ProcessChanges(section, LoopState(<<>>, {}, {}),
                                      IF parsed.found THEN reply.content.changes
                                      ELSE <<>>).results]

\* {}
EmptyCache == [k \in {} |-> <<>>]

\* load_analysis_cache without the existence test and the try/except: whatever
\* entries the file spells are taken
load_analysis_cache_unguarded(file) == file.data

\* load_analysis_cache: a missing or unreadable file gives {}
load_analysis_cache(file) == IF file.state = "ok" THEN file.data ELSE EmptyCache

\* get_cache_key: f"{company}|{q_prev}|{q_curr}|{section}"
get_cache_key(company, q_prev, q_curr, section) ==
    company \o <<"|">> \o q_prev \o <<"|">> \o q_curr \o <<"|">> \o <<section>>

\* quarter_data.get(s): the text of a section, None when the key is missing
SectionText(quarter_data, s) ==
    IF s \in DOMAIN quarter_data THEN quarter_data[s] ELSE NoText

_has_meaningful_data(quarter_data) ==
    \E i \in DOMAIN SectionSeq :
        LET t == SectionText(quarter_data, SectionSeq[i])
        IN  t.present /\ t.len > 0 /\ t.len >= MIN_SECTION_LENGTH

\* Order of the strings used in quarter labels ("Q1" < "Q2", "2023" < "2024")
LabelRank(tok) ==
    CASE tok = "Q1" -> 1 [] tok = "Q2" -> 2 [] tok = "Q3" -> 3 [] tok = "Q4" -> 4
      [] tok = "2023" -> 23 [] tok = "2024" -> 24 [] OTHER -> 0

\* The sort key of a label "<quarter>_<year>": (q.split('_')[1], q.split('_')[0])
QuarterKey(q) == <<LabelRank(q[3]), LabelRank(q[1])>>

KeyLess(a, b) == a[1] < b[1] \/ (a[1] = b[1] /\ a[2] < b[2])

RECURSIVE SortQuarters(_)
\* sorted(meaningful_quarters, key=...)
SortQuarters(qs) ==
    IF qs = {} THEN <<>>
    ELSE LET first == CHOOSE q \in qs :
                          \A r \in qs \ {q} : KeyLess(QuarterKey(q), QuarterKey(r))
         IN  <<first>> \o SortQuarters(qs \ {first})

\* MeaningfulQuarters without the filter: every quarter of the company
MeaningfulQuartersUnfiltered(quarters_data) == DOMAIN quarters_data

MeaningfulQuarters(quarters_data) ==
    {q \in DOMAIN quarters_data : _has_meaningful_data(quarters_data[q])}

RECURSIVE CachedPrefix(_, _, _, _, _)
\* lines 427-432: the loop over the sections, stopping at the first missing key
CachedPrefix(c, company, q_prev, q_curr, i) ==
    IF i > Len(SectionSeq) THEN [fully_cached |-> TRUE, changes |-> <<>>]
    ELSE LET key == get_cache_key(company, q_prev, q_curr, SectionSeq[i])
         IN  IF key \notin DOMAIN c THEN [fully_cached |-> FALSE, changes |-> <<>>]
             ELSE LET rest == CachedPrefix(c, company, q_prev, q_curr, i + 1)
                  IN  [fully_cached |-> rest.fully_cached,
                       changes |-> c[key] \o rest.changes]

\* The loop state of the planning loop
PlanState(res, pairs, hits) == [results |-> res, pairs |-> pairs, hits |-> hits]

Pair(company, q_curr, q_prev) == [company |-> company, q_curr |-> q_curr, q_prev |-> q_prev]

\* PlanPair without the dry_run test of lines 419-420
PlanPairIgnoringDryRun(c, dry, company, q_prev, q_curr, st) ==
    LET hit == CachedPrefix(c, company, q_prev, q_curr, 1)
    IN  IF hit.fully_cached
        THEN PlanState(st.results \o hit.changes, st.pairs, st.hits + 1)
        ELSE PlanState(st.results, Append(st.pairs, Pair(company, q_curr, q_prev)),
                       st.hits)

\* PlanPair reusing whatever cached records the pair has: a partial hit is a hit
PlanPairPartialReuse(c, dry, company, q_prev, q_curr, st) ==
    IF dry THEN st
    ELSE LET hit == CachedPrefix(c, company, q_prev, q_curr, 1)
         IN  IF hit.fully_cached \/ hit.changes # <<>>
             THEN PlanState(st.results \o hit.changes, st.pairs, st.hits + 1)
             ELSE PlanState(st.results, Append(st.pairs, Pair(company, q_curr, q_prev)),
                            st.hits)

\* lines 416-440 for one consecutive pair
PlanPair(c, dry, company, q_prev, q_curr, st) ==
    IF dry THEN st
    ELSE LET hit == CachedPrefix(c, company, q_prev, q_curr, 1)
         IN  IF hit.fully_cached
             THEN PlanState(st.results \o hit.changes, st.pairs, st.hits + 1)
             ELSE PlanState(st.results, Append(st.pairs, Pair(company, q_curr, q_prev)),
                            st.hits)

RECURSIVE PlanQuarters(_, _, _, _, _, _)
\* for i in range(1, len(quarters))
PlanQuarters(c, dry, company, quarters, i, st) ==
    IF i > Len(quarters) THEN st
    ELSE PlanQuarters(c, dry, company, quarters, i + 1,
                      PlanPair(c, dry, company, quarters[i - 1], quarters[i], st))

RECURSIVE PlanCompanies(_, _, _, _, _)
\* lines 401-440: for company, quarters_data in parsed_data.items()
PlanCompanies(c, dry, data, n, st) ==
    IF n > Len(data) THEN st
    ELSE LET quarters == SortQuarters(MeaningfulQuarters(data[n].quarters_data))
         IN  PlanCompanies(c, dry, data, n + 1,
                 IF Len(quarters) < 2 THEN st
                 ELSE PlanQuarters(c, dry, data[n].company, quarters, 2, st))

\* quarters_data of a company of parsed_data
QuartersOf(data, company) ==
    data[CHOOSE n \in DOMAIN data : data[n].company = company].quarters_data

\* lines 454-463: the record built from one DisclosureChange
PairRecord(p, ch) ==
    [Company |-> p.company, Quarter_Previous |-> p.q_prev, Quarter_Current |-> p.q_curr,
     Section |-> ch.section, Quote_Old |-> ch.quote_old, Quote_New |-> ch.quote_new,
     Description |-> ch.description_of_change, Signal |-> ch.signal_classification]

\* compare_quarters raised: a section future re-raised in future.result()
PairRaised(task) == \E s \in DOMAIN task : task[s].state = "raised"

\* PairResults collecting the changes in another order than the sections
\* were submitted in, as a loop over the futures as they complete may
PairResultsLastFirst(p, task) ==
    LET changes == task[SectionSeq[3]].results \o task[SectionSeq[1]].results
                       \o task[SectionSeq[2]].results
    IN  [i \in DOMAIN changes |-> PairRecord(p, changes[i])]

\* compare_quarters / analyze_pair: the changes of the three sections in the
\* order of the sections list, as records
PairResults(p, task) ==
    LET changes == task[SectionSeq[1]].results \o task[SectionSeq[2]].results
                       \o task[SectionSeq[3]].results
    IN  [i \in DOMAIN changes |-> PairRecord(p, changes[i])]

\* DedupKey without lower(): a case-sensitive key
DedupKeyCaseSensitive(r) == <<r.Company, r.Quarter_Current, r.Quote_New>>

\* line 489: the key of the global dedup
DedupKey(r) == <<Lower(r.Company), r.Quarter_Current, Lower(r.Quote_New)>>

RECURSIVE DedupFrom(_, _, _)
\* lines 488-492, from index i with the keys seen so far
DedupFrom(rs, i, seen) ==
    IF i > Len(rs) THEN <<>>
    ELSE IF DedupKey(rs[i]) \in seen THEN DedupFrom(rs, i + 1, seen)
    ELSE <<rs[i]>> \o DedupFrom(rs, i + 1, seen \cup {DedupKey(rs[i])})

\* lines 485-492: the global dedup
GlobalDedup(rs) == DedupFrom(rs, 1, {})

\* Whether the name defaultdict is bound in analyzer.py: the module imports
\* os, logging, re, json, Path, ThreadPoolExecutor, typing, dotenv and the
\* langchain classes only, so line 476 raises NameError
defaultdict_defined == FALSE

\* The three cache keys of a pair
PairKeys(p) ==
    {get_cache_key(p.company, p.q_prev, p.q_curr, SectionSeq[i]) : i \in DOMAIN SectionSeq}

\* The section a cache key of a pair belongs to
SectionOfKey(p, key) ==
    CHOOSE s \in Sections : key = get_cache_key(p.company, p.q_prev, p.q_curr, s)

\* lines 476-481: cache[key] = by_section.get(section, []) for the three sections
UpdateCache(c, p, pair_results) ==
    [k \in DOMAIN c \cup PairKeys(p) |->
        IF k \in PairKeys(p)
        THEN SelectSeq(pair_results, LAMBDA r : r.Section = SectionOfKey(p, k))
        ELSE c[k]]

\* The state of the loop over the futures
JoinState(res, c, err) == [results |-> res, cache |-> c, error |-> err]

RECURSIVE JoinLoop(_, _, _, _)
\* lines 467-481: for future, (company, q_curr, q_prev, _) in zip(futures, pairs)
JoinLoop(pairs, tks, i, st) ==
    IF i > Len(pairs) THEN st
    ELSE IF PairRaised(tks[i]) THEN JoinState(st.results, st.cache, "capability")
    ELSE LET pair_results == PairResults(pairs[i], tks[i])
         IN  IF ~defaultdict_defined
             THEN JoinState(st.results \o pair_results, st.cache, "NameError")
             ELSE JoinLoop(pairs, tks, i + 1,
                           JoinState(st.results \o pair_results,
                                     UpdateCache(st.cache, pairs[i], pair_results),
                                     "none"))

\* ---- inputs of analyze_all_companies ----

MaxRuns == 2

QPrev == <<"Q4", "_", "2023">>
QCurr == <<"Q1", "_", "2024">>
QLate == <<"Q2", "_", "2024">>
QLast == <<"Q3", "_", "2024">>

CompanyA == <<"A">>
CompanyLowerA == <<"a">>
CompanyB == <<"B">>

\* A quarter with the three sections long enough to compare
FullQuarter == [s \in Sections |-> TextOfLen(MIN_SECTION_LENGTH)]
\* A quarter whose sections are all placeholders
PlaceholderQuarter == [s \in Sections |-> TextOfLen(40)]
\* A quarter with MD&A only: Risk_Factors is a placeholder, Accounting is missing
SparseQuarter == [s \in {"MD&A", "Risk_Factors"} |->
                     IF s = "MD&A" THEN TextOfLen(MIN_SECTION_LENGTH) ELSE TextOfLen(40)]

\* parsed_data in the order of parsed_data.items()
ParsedPool ==
    { << [company |-> CompanyA,
          quarters_data |-> (QCurr :> FullQuarter @@ QPrev :> FullQuarter)],
         [company |-> CompanyB,
          quarters_data |-> (QCurr :> FullQuarter @@ QPrev :> PlaceholderQuarter)] >>,
      << [company |-> CompanyA,
          quarters_data |-> (QLate :> PlaceholderQuarter @@ QCurr :> FullQuarter
                                @@ QPrev :> FullQuarter)],
         [company |-> CompanyLowerA,
          quarters_data |-> (QCurr :> SparseQuarter @@ QPrev :> SparseQuarter)] >>,
      \* three quarters with data around a placeholder, and a company with one
      << [company |-> CompanyB,
          quarters_data |-> (QLast :> SparseQuarter @@ QCurr :> PlaceholderQuarter
                                @@ QLate :> SparseQuarter @@ QPrev :> SparseQuarter)],
         [company |-> CompanyA,
          quarters_data |-> (QCurr :> PlaceholderQuarter @@ QPrev :> FullQuarter)] >> }

\* A record of the cache file, as line 454-463 writes it
CachedRecord(company, section, quote_new) ==
    [Company |-> company, Quarter_Previous |-> QPrev, Quarter_Current |-> QCurr,
     Section |-> section, Quote_Old |-> <<"o">>, Quote_New |-> quote_new,
     Description |-> <<"d">>, Signal |-> "Positive"]

\* What the cache file holds under one key
Absent == [present |-> FALSE, recs |-> <<>>]
Entry(recs) == [present |-> TRUE, recs |-> recs]

MdaEntries == { Absent, Entry(<<CachedRecord(CompanyA, "MD&A", <<"x">>)>>),
                Entry(<<CachedRecord(CompanyA, "MD&A", <<"X">>)>>) }
RiskEntries == { Absent, Entry(<<>>),
                 Entry(<<CachedRecord(CompanyA, "Risk_Factors", <<"x">>)>>) }
AccountingEntries == { Absent, Entry(<<CachedRecord(CompanyA, "Accounting", <<"y">>)>>) }

KeyA(s) == get_cache_key(CompanyA, QPrev, QCurr, s)
KeyLowerA(s) == get_cache_key(CompanyLowerA, QPrev, QCurr, s)

\* The content of a readable cache file
CacheData(mda, risk, acc, lower_a) ==
    LET present == {KeyA("MD&A") : x \in {1} \cap (IF mda.present THEN {1} ELSE {})}
                   \cup {KeyA("Risk_Factors") : x \in {1} \cap (IF risk.present THEN {1} ELSE {})}
                   \cup {KeyA("Accounting") : x \in {1} \cap (IF acc.present THEN {1} ELSE {})}
                   \cup (IF lower_a THEN {KeyLowerA(s) : s \in Sections} ELSE {})
    IN  [k \in present |->
            CASE k = KeyA("MD&A") -> mda.recs
              [] k = KeyA("Risk_Factors") -> risk.recs
              [] k = KeyA("Accounting") -> acc.recs
              [] k = KeyLowerA("MD&A") -> <<CachedRecord(CompanyLowerA, "MD&A", <<"x">>)>>
              [] OTHER -> <<>>]

CacheFilePool ==
    { [state |-> "missing", data |-> EmptyCache],
      [state |-> "corrupt", data |-> EmptyCache],
      \* a file json.load rejects, although it spells the entries of a pair
      [state |-> "corrupt",
       data |-> CacheData(Entry(<<CachedRecord(CompanyA, "MD&A", <<"x">>)>>), Entry(<<>>),
                          Entry(<<CachedRecord(CompanyA, "Accounting", <<"y">>)>>), FALSE)] }
    \cup { [state |-> "ok", data |-> CacheData(m, r, a, l)] :
               m \in MdaEntries, r \in RiskEntries, a \in AccountingEntries, l \in BOOLEAN }

\* What the extraction capability answers to one chain.invoke
ReplyPool ==
    { Reply(TRUE, FALSE, FALSE, <<>>),
      Reply(FALSE, TRUE, FALSE, <<>>),
      Reply(FALSE, TRUE, TRUE,
            << [quote_old |-> <<"o", "k">>, quote_new |-> <<"o", "k">>,
                description_of_change |-> <<"a">>, signal_classification |-> "Positive"] >>) }

\* What the synthesis capability answers: the parsed verdict
VerdictPool == {"verdict_1", "verdict_2"}
None == "None"

Pending == [state |-> "pending", called |-> FALSE, results |-> <<>>]

NoRun == [outcome |-> "none", computed |-> {}, final |-> <<>>, verdict |-> None]

AnalyzerInputs ==
    /\ parsed_data \in ParsedPool
    /\ dry_run \in BOOLEAN
    /\ cache_file \in CacheFilePool
    /\ az_run = 1
    /\ az_pc = "start"
    /\ cache = EmptyCache
    /\ results = <<>>
    /\ pairs_to_analyze = <<>>
    /\ cache_hits = 0
    /\ tasks = <<>>
    /\ final = <<>>
    /\ verdict = None
    /\ az_error = "none"
    /\ prev_run = NoRun

AnalyzerIdle ==
    /\ parsed_data = <<>>
    /\ dry_run = FALSE
    /\ cache_file = [state |-> "missing", data |-> EmptyCache]
    /\ az_run = 1
    /\ az_pc = "idle"
    /\ cache = EmptyCache
    /\ results = <<>>
    /\ pairs_to_analyze = <<>>
    /\ cache_hits = 0
    /\ tasks = <<>>
    /\ final = <<>>
    /\ verdict = None
    /\ az_error = "none"
    /\ prev_run = NoRun

\* ---- steps of analyze_all_companies ----

\* lines 390-440: load the cache, plan the pairs, submit the workers
AzPlan ==
    /\ az_pc = "start"
    /\ LET c == load_analysis_cache(cache_file)
           plan == PlanCompanies(c, dry_run, parsed_data, 1, PlanState(<<>>, <<>>, 0))
       IN  /\ cache' = c
           /\ results' = plan.results
           /\ pairs_to_analyze' = plan.pairs
           /\ cache_hits' = plan.hits
           /\ tasks' = [i \in DOMAIN plan.pairs |-> [s \in Sections |-> Pending]]
           /\ az_pc' = IF plan.pairs # <<>> THEN "workers" ELSE "dedup"
    /\ UNCHANGED <<parsed_data, dry_run, cache_file, az_run, final, verdict, az_error,
                   prev_run>>
    /\ UNCHANGED azOthers

\* compare_one(section) of one submitted pair, in a worker thread
AzCompareSection ==
    /\ az_pc = "workers"
    /\ \E i \in DOMAIN tasks, s \in Sections, reply \in ReplyPool :
          /\ tasks[i][s].state = "pending"
          /\ LET p == pairs_to_analyze[i]
                 qd == QuartersOf(parsed_data, p.company)
             IN  tasks' = [tasks EXCEPT ![i][s] =
                              compare_sections(s, SectionText(qd[p.q_prev], s),
                                               SectionText(qd[p.q_curr], s), reply)]
    /\ UNCHANGED <<parsed_data, dry_run, cache_file, az_run, az_pc, cache, results,
                   pairs_to_analyze, cache_hits, final, verdict, az_error, prev_run>>
    /\ UNCHANGED azOthers

\* lines 466-483: the loop over the futures, once every worker has finished,
\* and save_analysis_cache, whose failure is logged and swallowed
AzJoin ==
    /\ az_pc = "workers"
    /\ \A i \in DOMAIN tasks : \A s \in Sections : tasks[i][s].state # "pending"
    /\ LET j == JoinLoop(pairs_to_analyze, tasks, 1, JoinState(results, cache, "none"))
       IN  /\ results' = j.results
           /\ cache' = j.cache
           /\ az_error' = j.error
           /\ IF j.error = "none"
              THEN /\ az_pc' = "dedup"
                   /\ cache_file' \in {cache_file, [state |-> "ok", data |-> j.cache]}
              ELSE /\ az_pc' = "raised"
                   /\ UNCHANGED cache_file
    /\ UNCHANGED <<parsed_data, dry_run, az_run, pairs_to_analyze, cache_hits, tasks,
                   final, verdict, prev_run>>
    /\ UNCHANGED azOthers

\* lines 485-492 and 508: the global dedup, and the return without a verdict
AzReturnNoVerdict ==
    /\ az_pc = "dedup"
    /\ GlobalDedup(results) = <<>> \/ dry_run
    /\ final' = GlobalDedup(results)
    /\ verdict' = None
    /\ az_pc' = "returned"
    /\ UNCHANGED <<parsed_data, dry_run, cache_file, az_run, cache, results,
                   pairs_to_analyze, cache_hits, tasks, az_error, prev_run>>
    /\ UNCHANGED azOthers

\* lines 485-506: the global dedup, generate_final_verdict and the return
AzVerdict ==
    /\ az_pc = "dedup"
    /\ GlobalDedup(results) # <<>> /\ ~dry_run
    /\ final' = GlobalDedup(results)
    /\ \E v \in VerdictPool : verdict' = v
    /\ az_pc' = "returned"
    /\ UNCHANGED <<parsed_data, dry_run, cache_file, az_run, cache, results,
                   pairs_to_analyze, cache_hits, tasks, az_error, prev_run>>
    /\ UNCHANGED azOthers

\* generate_final_verdict raises: chain.invoke or json.loads, nothing catches
AzVerdictRaises ==
    /\ az_pc = "dedup"
    /\ GlobalDedup(results) # <<>> /\ ~dry_run
    /\ final' = GlobalDedup(results)
    /\ az_error' = "verdict"
    /\ az_pc' = "raised"
    /\ UNCHANGED <<parsed_data, dry_run, cache_file, az_run, cache, results,
                   pairs_to_analyze, cache_hits, tasks, verdict, prev_run>>
    /\ UNCHANGED azOthers

\* The pairs whose worker finished without raising
ComputedPairs ==
    {pairs_to_analyze[i] : i \in {k \in DOMAIN tasks : ~PairRaised(tasks[k])}}

\* The pipeline is run again on the same parsed data, with the cache file the
\* run before has left
AzRunAgain ==
    /\ az_pc \in {"returned", "raised"}
    /\ az_run < MaxRuns
    /\ prev_run' = [outcome |-> az_pc, computed |-> ComputedPairs,
                    final |-> IF az_pc = "returned" THEN final ELSE <<>>,
                    verdict |-> verdict]
    /\ az_run' = az_run + 1
    /\ az_pc' = "start"
    /\ cache' = EmptyCache
    /\ results' = <<>>
    /\ pairs_to_analyze' = <<>>
    /\ cache_hits' = 0
    /\ tasks' = <<>>
    /\ final' = <<>>
    /\ verdict' = None
    /\ az_error' = "none"
    /\ UNCHANGED <<parsed_data, dry_run, cache_file>>
    /\ UNCHANGED azOthers

Next ==
    \/ AzPlan
    \/ AzCompareSection
    \/ AzJoin
    \/ AzReturnNoVerdict
    \/ AzVerdict
    \/ AzVerdictRaises
    \/ AzRunAgain

\* ------------------------------------------------------------------------
\* multiagent_analysis/pipeline.py: compute_overall_signal and run_pipeline
\* ------------------------------------------------------------------------

\* Scores are in tenths, overall scores in hundredths
SCORE_MIN == 0 - 1000
SCORE_MAX == 1000
POSITIVE_ABOVE == 200
NEGATIVE_BELOW == 0 - 200
MIXED_ABOVE == 50

RECURSIVE SumSeq(_)
SumSeq(xs) == IF xs = <<>> THEN 0 ELSE Head(xs) + SumSeq(Tail(xs))

RECURSIVE AllScores(_)
\* lines 87-90: the scores of every metric of every insight
AllScores(insights) ==
    IF insights = <<>> THEN <<>>
    ELSE [j \in DOMAIN Head(insights).metrics |-> Head(insights).metrics[j].signal_score]
             \o AllScores(Tail(insights))

\* round(a / n, 0) for integers a and n > 0, ties to the even neighbour; the
\* scores of the model are multiples of 0.5, for which Python's sum and
\* division give the exact tie
RoundHalfEven(a, n) ==
    LET q == a \div n
        r == a % n
    IN  IF 2 * r < n THEN q
        ELSE IF 2 * r > n THEN q + 1
        ELSE IF q % 2 = 0 THEN q ELSE q + 1

Max2(a, b) == IF a >= b THEN a ELSE b
Min2(a, b) == IF a <= b THEN a ELSE b
Abs(a) == IF a >= 0 THEN a ELSE 0 - a

\* lines 102-110: the label of an overall score
SignalOf(overall_score) ==
    IF overall_score > POSITIVE_ABOVE THEN "Positive"
    ELSE IF overall_score < NEGATIVE_BELOW THEN "Negative"
    ELSE IF Abs(overall_score) > MIXED_ABOVE THEN "Mixed"
    ELSE "Noise"

compute_overall_signal(insights) ==
    LET all_scores == AllScores(insights)
    IN  IF all_scores = <<>> THEN [overall_score |-> 0, signal |-> "Noise"]
        ELSE LET avg_score == RoundHalfEven(SumSeq(all_scores) * 10, Len(all_scores))
                 overall_score == Max2(SCORE_MIN, Min2(SCORE_MAX, avg_score))
             IN  [overall_score |-> overall_score, signal |-> SignalOf(overall_score)]

\* ---- inputs and steps of run_pipeline, from the thematic agents on

\* The sections of the thematic agents, in the order extract_quarter gathers them
PipelineSections == <<"Revenue & Growth", "Capital & Liquidity", "Macro & Risk">>

PipelineMetricPool ==
    {MetricDelta(m[1], QuoteOldOf(m[1]), QuoteNewOf(m[1]), m[2], m[3]) :
        m \in { <<"Revenue Growth", "Positive", 80>>,
                <<"Revenue Growth", "Negative", 0 - 20>>,
                <<"Revenue Growth", "Negative", 0 - 60>>,
                <<"Margin", "Positive", 10>>,
                <<"Margin", "Positive", 20>>,
                <<"Margin", "Noise", 5>> }}

\* The metrics compare_section may return for a section
SectionMetricsPool(i) ==
    IF i = 1 THEN SeqsUpTo(PipelineMetricPool, MaxMetrics)
    ELSE IF i = 2
    THEN {<<>>} \cup {<<m>> : m \in {x \in PipelineMetricPool :
                                       x.subtopic = "Margin" /\ x.signal_score = 20}}
    ELSE {<<>>}

\* The reports the validating capability may return for a section
PipelineReportPool ==
    {<<>>} \cup
    {<<[subtopic |-> st, status |-> v, reason |-> <<"issue">>,
        corrected_quote_old |-> <<>>, corrected_quote_new |-> <<>>]>> :
        st \in Subtopics, v \in {"flagged", "removed"}}

CompareTask(section, state, metrics) ==
    [section_name |-> section, state |-> state, metrics |-> metrics]

PipelineQuarters == {"prev", "curr"}

PipelineInputs ==
    /\ rp_pc = "extract"
    /\ rp_agents = [q \in PipelineQuarters |-> [i \in DOMAIN PipelineSections |-> "pending"]]
    /\ rp_compare = <<>>
    /\ rp_insights = <<>>
    /\ rp_validate = <<>>
    /\ rp_overall = [overall_score |-> 0, signal |-> "none"]

PipelineIdle ==
    /\ rp_pc = "idle"
    /\ rp_agents = <<>>
    /\ rp_compare = <<>>
    /\ rp_insights = <<>>
    /\ rp_validate = <<>>
    /\ rp_overall = [overall_score |-> 0, signal |-> "none"]

\* agents/*.py, analyze: the capability returned a QuarterSnapshot
RpAgentReturns ==
    /\ rp_pc = "extract"
    /\ \E q \in PipelineQuarters, i \in DOMAIN PipelineSections :
           /\ rp_agents[q][i] = "pending"
           /\ rp_agents' = [rp_agents EXCEPT ![q][i] = "returned"]
    /\ UNCHANGED <<rp_pc, rp_compare, rp_insights, rp_validate, rp_overall>>
    /\ UNCHANGED rpOthers

\* agents/*.py, analyze: invoke_structured raised
RpAgentFails ==
    /\ rp_pc = "extract"
    /\ \E q \in PipelineQuarters, i \in DOMAIN PipelineSections :
           /\ rp_agents[q][i] = "pending"
           /\ rp_agents' = [rp_agents EXCEPT ![q][i] = "failed"]
    /\ UNCHANGED <<rp_pc, rp_compare, rp_insights, rp_validate, rp_overall>>
    /\ UNCHANGED rpOthers

\* pipeline.py, lines 36-42: both extract_quarter gathers have every result
AllExtracted ==
    \A q \in PipelineQuarters, i \in DOMAIN PipelineSections : rp_agents[q][i] # "pending"

\* pipeline.py, lines 44-52, and temporal_delta.py, lines 99-109: a section
\* whose current-quarter agent failed is not in snapshots_curr; one whose
\* previous-quarter agent failed has no match and gets no task
CompareTasks(agents) ==
    [i \in DOMAIN PipelineSections |->
        CompareTask(PipelineSections[i],
                    IF agents["curr"][i] # "returned" THEN "no_snapshot"
                    ELSE IF agents["prev"][i] # "returned" THEN "no_match"
                    ELSE "pending",
                    <<>>)]

\* pipeline.py, lines 160-170: the snapshots are in, run_temporal_comparison
\* creates its tasks
RpStartComparison ==
    /\ rp_pc = "extract"
    /\ AllExtracted
    /\ rp_compare' = CompareTasks(rp_agents)
    /\ rp_pc' = "compare"
    /\ UNCHANGED <<rp_agents, rp_insights, rp_validate, rp_overall>>
    /\ UNCHANGED rpOthers

\* temporal_delta.py, compare_section: the capability returned an insight
RpCompareReturns ==
    /\ rp_pc = "compare"
    /\ \E i \in DOMAIN rp_compare :
           /\ rp_compare[i].state = "pending"
           /\ \E ms \in SectionMetricsPool(i) :
                  rp_compare' = [rp_compare EXCEPT
                                    ![i] = CompareTask(@.section_name, "returned", ms)]
    /\ UNCHANGED <<rp_pc, rp_agents, rp_insights, rp_validate, rp_overall>>
    /\ UNCHANGED rpOthers

\* temporal_delta.py, compare_section: invoke_structured raised
RpCompareFails ==
    /\ rp_pc = "compare"
    /\ \E i \in DOMAIN rp_compare :
           /\ rp_compare[i].state = "pending"
           /\ rp_compare' = [rp_compare EXCEPT ![i].state = "failed"]
    /\ UNCHANGED <<rp_pc, rp_agents, rp_insights, rp_validate, rp_overall>>
    /\ UNCHANGED rpOthers

\* AllCompared without the wait: the results are taken as they are
AllComparedNoWait == TRUE

\* AllCompared of a gather without return_exceptions: a task that raised
\* ends the wait with its exception and no result list is returned
AllComparedFailFast ==
    \A i \in DOMAIN rp_compare : rp_compare[i].state \notin {"pending", "failed"}

\* asyncio.gather(*tasks, return_exceptions=True) has every result
AllCompared == \A i \in DOMAIN rp_compare : rp_compare[i].state # "pending"

RECURSIVE ReturnedInsights(_)
\* temporal_delta.py, lines 113-118: the SectionalInsight results, in order
ReturnedInsights(cmp) ==
    IF cmp = <<>> THEN <<>>
    ELSE (IF Head(cmp).state = "returned"
          THEN <<[section_name |-> Head(cmp).section_name, metrics |-> Head(cmp).metrics]>>
          ELSE <<>>) \o ReturnedInsights(Tail(cmp))

\* run_temporal_comparison returns, and validate_insights creates its tasks
RpStartValidation ==
    /\ rp_pc = "compare"
    /\ AllCompared
    /\ rp_insights' = ReturnedInsights(rp_compare)
    /\ rp_validate' = [i \in DOMAIN ReturnedInsights(rp_compare) |-> "pending"]
    /\ rp_pc' = "validate"
    /\ UNCHANGED <<rp_agents, rp_compare, rp_overall>>
    /\ UNCHANGED rpOthers

\* validate_section, lines 73-74: nothing to validate
RpValidateNoMetrics ==
    /\ rp_pc = "validate"
    /\ \E i \in DOMAIN rp_validate :
           /\ rp_validate[i] = "pending"
           /\ rp_insights[i].metrics = <<>>
           /\ rp_validate' = [rp_validate EXCEPT ![i] = "skipped"]
    /\ UNCHANGED <<rp_pc, rp_agents, rp_compare, rp_insights, rp_overall>>
    /\ UNCHANGED rpOthers

\* validate_section, lines 102-136: the capability returned a report
RpValidateAnswers ==
    /\ rp_pc = "validate"
    /\ \E i \in DOMAIN rp_validate, report \in PipelineReportPool :
           /\ rp_validate[i] = "pending"
           /\ rp_insights[i].metrics # <<>>
           /\ rp_insights' = [rp_insights EXCEPT ![i].metrics = ApplyReport(@, report)]
           /\ rp_validate' = [rp_validate EXCEPT ![i] = "validated"]
    /\ UNCHANGED <<rp_pc, rp_agents, rp_compare, rp_overall>>
    /\ UNCHANGED rpOthers

\* validate_section, lines 138-141: the capability call raised
RpValidateFails ==
    /\ rp_pc = "validate"
    /\ \E i \in DOMAIN rp_validate :
           /\ rp_validate[i] = "pending"
           /\ rp_insights[i].metrics # <<>>
           /\ rp_insights' = [rp_insights EXCEPT
                                 ![i].metrics = _local_consistency_check(@)]
           /\ rp_validate' = [rp_validate EXCEPT ![i] = "fallback"]
    /\ UNCHANGED <<rp_pc, rp_agents, rp_compare, rp_overall>>
    /\ UNCHANGED rpOthers

\* asyncio.gather of the validate_section tasks has every result
AllValidated == \A i \in DOMAIN rp_validate : rp_validate[i] # "pending"

\* pipeline.py, lines 170-196: validate_insights returns, market_validate
\* leaves scores and statuses as they are, the payload is assembled
RpAssemble ==
    /\ rp_pc = "validate"
    /\ AllValidated
    /\ rp_overall' = compute_overall_signal(rp_insights)
    /\ rp_pc' = "done"
    /\ UNCHANGED <<rp_agents, rp_compare, rp_insights, rp_validate>>
    /\ UNCHANGED rpOthers

NextPipeline ==
    \/ RpAgentReturns
    \/ RpAgentFails
    \/ RpStartComparison
    \/ RpCompareReturns
    \/ RpCompareFails
    \/ RpStartValidation
    \/ RpValidateNoMetrics
    \/ RpValidateAnswers
    \/ RpValidateFails
    \/ RpAssemble

\* ------------------------------------------------------------------------
\* core/financial_memory.py: load_facts and save_facts
\* ------------------------------------------------------------------------

MaxWriters == 2

Writers == 1..MaxWriters

\* _cached_facts is None
NoRef == 0 - 1
\* The list an earlier load_facts of this process has cached
CachedRef == 0

\* The facts writer w passes to save_facts
FactsOf(w) == <<[company |-> "A", year |-> 2022 + w, metric |-> "Revenue",
                value |-> "$100"]>>

\* A fact the store holds before the writers start
StoredFact == [company |-> "A", year |-> 2022, metric |-> "Revenue", value |-> "$95"]

\* MEMORY_PATH: missing, not decodable, or a JSON list of facts
FactFile(state, data) == [state |-> state, data |-> data]

\* load_facts: the reference it returns and what it does to the cache and to
\* the list objects; a list it creates for writer w gets the reference w
load_facts(w, file, cached, heap) ==
    IF cached # NoRef
    THEN [ref |-> cached, cached |-> cached, heap |-> heap]
    ELSE IF file.state = "missing"
    THEN [ref |-> w, cached |-> cached, heap |-> [heap EXCEPT ![w] = <<>>]]
    ELSE IF file.state = "ok"
    THEN [ref |-> w, cached |-> w, heap |-> [heap EXCEPT ![w] = file.data]]
    ELSE [ref |-> w, cached |-> cached, heap |-> [heap EXCEPT ![w] = <<>>]]

FactStoreInputs ==
    /\ fs_file \in {FactFile("missing", <<>>), FactFile("corrupt", <<>>),
                    FactFile("ok", <<>>), FactFile("ok", <<StoredFact>>)}
    /\ fs_cached \in {NoRef} \cup (IF fs_file.state = "ok" THEN {CachedRef} ELSE {})
    /\ fs_heap = [r \in 0..MaxWriters |->
                     IF r = CachedRef /\ fs_cached = CachedRef THEN fs_file.data ELSE <<>>]
    /\ fs_pc = [w \in Writers |-> "load"]
    /\ fs_existing = [w \in Writers |-> NoRef]

FactStoreIdle ==
    /\ fs_file = FactFile("missing", <<>>)
    /\ fs_cached = NoRef
    /\ fs_heap = <<>>
    /\ fs_pc = <<>>
    /\ fs_existing = <<>>

\* save_facts, line 131: existing = load_facts()
FsLoad(w) ==
    /\ fs_pc[w] = "load"
    /\ LET l == load_facts(w, fs_file, fs_cached, fs_heap)
       IN  /\ fs_existing' = [fs_existing EXCEPT ![w] = l.ref]
           /\ fs_cached' = l.cached
           /\ fs_heap' = l.heap
    /\ fs_pc' = [fs_pc EXCEPT ![w] = "extend"]
    /\ UNCHANGED fs_file
    /\ UNCHANGED fsOthers

\* line 132: existing.extend(facts)
FsExtend(w) ==
    /\ fs_pc[w] = "extend"
    /\ fs_heap' = [fs_heap EXCEPT ![fs_existing[w]] = @ \o FactsOf(w)]
    /\ fs_pc' = [fs_pc EXCEPT ![w] = "open"]
    /\ UNCHANGED <<fs_file, fs_cached, fs_existing>>
    /\ UNCHANGED fsOthers

\* line 135: open(MEMORY_PATH, "w") truncates the file
FsOpen(w) ==
    /\ fs_pc[w] = "open"
    /\ fs_file' = FactFile("corrupt", <<>>)
    /\ fs_pc' = [fs_pc EXCEPT ![w] = "dump"]
    /\ UNCHANGED <<fs_cached, fs_heap, fs_existing>>
    /\ UNCHANGED fsOthers

\* line 136: json.dump(existing, f, indent=2), and the file is closed
FsDump(w) ==
    /\ fs_pc[w] = "dump"
    /\ fs_file' = FactFile("ok", fs_heap[fs_existing[w]])
    /\ fs_pc' = [fs_pc EXCEPT ![w] = "reset"]
    /\ UNCHANGED <<fs_cached, fs_heap, fs_existing>>
    /\ UNCHANGED fsOthers

\* lines 137-138: _cached_facts = None; _company_index = None
FsReset(w) ==
    /\ fs_pc[w] = "reset"
    /\ fs_cached' = NoRef
    /\ fs_pc' = [fs_pc EXCEPT ![w] = "done"]
    /\ UNCHANGED <<fs_file, fs_heap, fs_existing>>
    /\ UNCHANGED fsOthers

NextFactStore ==
    \E w \in Writers : FsLoad(w) \/ FsExtend(w) \/ FsOpen(w) \/ FsDump(w) \/ FsReset(w)

\* ------------------------------------------------------------------------
\* disclosure_pipeline/src/analyzer.py: detect_regime on its own
\* ------------------------------------------------------------------------

MaxWords == 3

\* Words of a quote: keywords of the three sets in several cases, a one-time
\* keyword that holds an accounting keyword, and a word of no set
RegimeWords ==
    { <<"P", "D">>,
      <<"i", "p", "o">>,
      <<"O", "u", "t", "l", "o", "o", "k">>,
      <<"M", "o", "d", "e", "l", " ", "r", "e", "f", "r", "e", "s", "h">>,
      <<"S", "p", "i", "n", "-", "O", "f", "f">>,
      <<"o", "k">> }

RECURSIVE JoinWords(_)
\* " ".join(words)
JoinWords(ws) ==
    IF ws = <<>> THEN <<>>
    ELSE IF Len(ws) = 1 THEN ws[1]
    ELSE ws[1] \o <<" ">> \o JoinWords(Tail(ws))

RegimeTexts == {JoinWords(ws) : ws \in SeqsUpTo(RegimeWords, MaxWords)}

RegimeInputs ==
    /\ rg_text \in RegimeTexts
    /\ rg_pc = "call"
    /\ rg_regime = "none"

RegimeIdle ==
    /\ rg_text = <<>>
    /\ rg_pc = "idle"
    /\ rg_regime = "none"

\* detect_regime(text)
DetectRegime ==
    /\ rg_pc = "call"
    /\ rg_regime' = detect_regime(rg_text)
    /\ rg_pc' = "returned"
    /\ UNCHANGED rg_text
    /\ UNCHANGED rgOthers

NextRegime == DetectRegime

\* ------------------------------------------------------------------------
\* control/control_plane.py and control/research_replay.py: research sessions
\* ------------------------------------------------------------------------

MaxSessions == 3

QueryPool == {"query_1", "query_2"}

\* analyze_financials(query): the text it returns, or that it raises
AnalysisPool == {"result_1", "result_2", "raises"}

\* ResearchSession.model_dump(); session ids are uuid4 strings, drawn fresh
ResearchSession(session_id, query, trace, final_result, verification_report) ==
    [session_id |-> session_id, query |-> query, trace |-> trace,
     final_result |-> final_result, verification_report |-> verification_report]

NoFiles == [k \in {} |-> <<>>]

\* save_session: overwrite the file of the session id
save_session(files, session_data) ==
    [k \in DOMAIN files \cup {session_data.session_id} |->
        IF k = session_data.session_id THEN session_data ELSE files[k]]

\* load_session: the session of the file, or None (the empty list here)
load_session(files, session_id) ==
    IF session_id \in DOMAIN files THEN <<files[session_id]>> ELSE <<>>

\* ControlPlane.run_task: the session it returns and the files it leaves
run_task(files, query, analysis, session_id) ==
    IF analysis = "raises"
    THEN \* lines 124-126: the except branch returns without saving
         [session |-> ResearchSession(session_id, query, <<"Start Task", "Error">>,
                                      None, None),
          files |-> files]
    ELSE LET session == ResearchSession(session_id, query,
                                        <<"Start Task", "Agent Analysis", "Verification">>,
                                        analysis, "report")
         IN  [session |-> session, files |-> save_session(files, session)]

\* What a call gave back: the operation, its argument, the exception or
\* error it ended with, the sessions of its output and the ids it listed
Returned(op, arg, error, sessions, ids) ==
    [op |-> op, arg |-> arg, error |-> error, sessions |-> sessions, ids |-> ids]

SessionInputs ==
    /\ ss_files = NoFiles
    /\ ss_count = 0
    /\ ss_issued = {}
    /\ ss_returned = Returned("none", "none", "none", <<>>, {})

SessionIdle ==
    /\ ss_files = NoFiles
    /\ ss_count = 0
    /\ ss_issued = {}
    /\ ss_returned = Returned("idle", "none", "none", <<>>, {})

\* control_plane.py, lines 143-149
SsRunResearchTask ==
    /\ ss_count < MaxSessions
    /\ \E query \in QueryPool, analysis \in AnalysisPool :
           LET r == run_task(ss_files, query, analysis, ss_count + 1)
           IN  /\ ss_files' = r.files
               /\ ss_issued' = ss_issued \cup {r.session.session_id}
               /\ ss_returned' = Returned("run_research_task", query, "none",
                                          <<r.session>>, {})
    /\ ss_count' = ss_count + 1
    /\ UNCHANGED ssOthers

\* research_replay.py, lines 40-58
SsListSessions ==
    /\ ss_returned' = Returned("list_research_sessions", "none", "none", <<>>,
                               DOMAIN ss_files)
    /\ UNCHANGED <<ss_files, ss_count, ss_issued>>
    /\ UNCHANGED ssOthers

\* research_replay.py, lines 68-70: no file under the id
SsReplayNotFound ==
    /\ \E session_id \in 1..MaxSessions :
           /\ load_session(ss_files, session_id) = <<>>
           /\ ss_returned' = Returned("replay_research", session_id, "Session not found",
                                      <<>>, {})
    /\ UNCHANGED <<ss_files, ss_count, ss_issued>>
    /\ UNCHANGED ssOthers

\* research_replay.py, lines 72-116: the rerun and the comparison;
\* len(new_session.get("final_result", "")) raises TypeError on the null
\* final_result of a rerun whose analysis raised
SsReplay ==
    /\ ss_count < MaxSessions
    /\ \E session_id \in 1..MaxSessions, analysis \in AnalysisPool :
           /\ load_session(ss_files, session_id) # <<>>
           /\ LET original == load_session(ss_files, session_id)[1]
                  r == run_task(ss_files, original.query, analysis, ss_count + 1)
              IN  /\ ss_files' = r.files
                  /\ ss_returned' =
                         IF r.session.final_result = None
                         THEN Returned("replay_research", session_id, "TypeError", <<>>, {})
                         ELSE Returned("replay_research", session_id, "none",
                                       <<original, r.session>>, {})
    /\ ss_count' = ss_count + 1
    /\ UNCHANGED ss_issued
    /\ UNCHANGED ssOthers

NextSession == SsRunResearchTask \/ SsListSessions \/ SsReplayNotFound \/ SsReplay

\* ------------------------------------------------------------------------
\* Specifications
\* ------------------------------------------------------------------------

\* The components added after the first four, at rest
RestIdle == PipelineIdle /\ FactStoreIdle /\ RegimeIdle /\ SessionIdle

InitAnomaly == AnomalyInputs /\ CompareIdle /\ ValidateIdle /\ AnalyzerIdle /\ RestIdle

SpecAnomaly == InitAnomaly /\ [][NextAnomaly]_vars

InitCompare == CompareInputs /\ AnomalyIdle /\ ValidateIdle /\ AnalyzerIdle /\ RestIdle

SpecCompare == InitCompare /\ [][NextCompare]_vars

InitValidate == ValidateInputs /\ AnomalyIdle /\ CompareIdle /\ AnalyzerIdle /\ RestIdle

SpecValidate == InitValidate /\ [][NextValidate]_vars

Init == AnalyzerInputs /\ AnomalyIdle /\ CompareIdle /\ ValidateIdle /\ RestIdle

Spec == Init /\ [][Next]_vars

FirstFourIdle == AnomalyIdle /\ CompareIdle /\ ValidateIdle /\ AnalyzerIdle

InitPipeline == PipelineInputs /\ FirstFourIdle /\ FactStoreIdle /\ RegimeIdle /\ SessionIdle

SpecPipeline == InitPipeline /\ [][NextPipeline]_vars

InitFactStore == FactStoreInputs /\ FirstFourIdle /\ PipelineIdle /\ RegimeIdle /\ SessionIdle

SpecFactStore == InitFactStore /\ [][NextFactStore]_vars

InitRegime == RegimeInputs /\ FirstFourIdle /\ PipelineIdle /\ FactStoreIdle /\ SessionIdle

SpecRegime == InitRegime /\ [][NextRegime]_vars

InitSession ==
    SessionInputs /\ FirstFourIdle /\ PipelineIdle /\ FactStoreIdle /\ RegimeIdle

SpecSession == InitSession /\ [][NextSession]_vars

\* ------------------------------------------------------------------------
\* Properties of detect_anomalies
\* ------------------------------------------------------------------------

GroupKeySet == {FactKey(facts[i]) : i \in DOMAIN facts}

\* y1, y2 are neighbours among the distinct periods of group k
AdjacentPeriods(k, y1, y2) ==
    /\ y1 \in HistoryYears(facts, k)
    /\ y2 \in HistoryYears(facts, k)
    /\ y1 < y2
    /\ ~ \E y \in HistoryYears(facts, k) : y1 < y /\ y < y2

AdjacentPairs == {p \in GroupKeySet \X Years \X Years : AdjacentPeriods(p[1], p[2], p[3])}

PrevOf(p) == parse_value(HistoryValue(facts, p[1], p[2]))
CurrOf(p) == parse_value(HistoryValue(facts, p[1], p[3]))

\* Sign of (percent change - t), for a non-zero previous value: the comparison
\* 100 * (curr - prev) / prev ? t multiplied through by prev * prev > 0
ChangeMinus(p, t) == 100 * (CurrOf(p) - PrevOf(p)) * PrevOf(p) - t * PrevOf(p) * PrevOf(p)

EmittedFor(kind, p) ==
    \E i \in DOMAIN anomalies :
        /\ anomalies[i].kind = kind
        /\ <<anomalies[i].company, anomalies[i].metric>> = p[1]
        /\ anomalies[i].y_prev = p[2]
        /\ anomalies[i].y_curr = p[3]

EmittedCount(p) ==
    Cardinality({i \in DOMAIN anomalies :
        /\ <<anomalies[i].company, anomalies[i].metric>> = p[1]
        /\ anomalies[i].y_prev = p[2]
        /\ anomalies[i].y_curr = p[3]})

\* C9 (as amended): for each adjacent period pair with a non-zero previous
\* value, detect_anomalies emits a Drift anomaly exactly when the percent
\* change is strictly below -5%, a Spike anomaly exactly when it is strictly
\* above +20%, and nothing otherwise (a change of exactly -5% or +20% emits
\* nothing).
C9_StrictThresholds ==
    an_pc = "done" =>
        \A p \in AdjacentPairs :
            PrevOf(p) # 0 =>
                /\ EmittedFor("NEGATIVE DRIFT", p) <=> ChangeMinus(p, 0 - 5) < 0
                /\ EmittedFor("SPIKE", p) <=> ChangeMinus(p, 20) > 0
                /\ EmittedCount(p) <= 1

\* C9 (as claimed): Drift if change <= -5%, Spike if change >= +20%, both
\* boundaries included.
C9_InclusiveThresholds ==
    an_pc = "done" =>
        \A p \in AdjacentPairs :
            PrevOf(p) # 0 =>
                /\ EmittedFor("NEGATIVE DRIFT", p) <=> ChangeMinus(p, 0 - 5) <= 0
                /\ EmittedFor("SPIKE", p) <=> ChangeMinus(p, 20) >= 0

\* A finished run holding a pair at exactly -5% or exactly +20% that emitted
\* nothing, and a pair beyond a threshold that emitted its anomaly.
C9_Witness ==
    /\ an_pc = "done"
    /\ \E p \in AdjacentPairs :
           /\ PrevOf(p) # 0
           /\ ChangeMinus(p, 0 - 5) = 0 \/ ChangeMinus(p, 20) = 0
           /\ EmittedCount(p) = 0
    /\ \E p \in AdjacentPairs : EmittedFor("SPIKE", p) \/ EmittedFor("NEGATIVE DRIFT", p)

\* C10: an adjacent pair whose previous value normalizes to zero yields no
\* anomaly, and the run still completes and emits exactly one anomaly for
\* every other adjacent pair whose change is beyond a threshold.
C10_ZeroPreviousSkipped ==
    an_pc = "done" =>
        /\ \A p \in AdjacentPairs : PrevOf(p) = 0 => EmittedCount(p) = 0
        /\ Len(anomalies) =
               Cardinality({p \in AdjacentPairs :
                   /\ PrevOf(p) # 0
                   /\ ChangeMinus(p, 0 - 5) < 0 \/ ChangeMinus(p, 20) > 0})

\* "$0" followed by a non-zero value emitted nothing while another pair of
\* the same input emitted an anomaly.
C10_Witness ==
    /\ an_pc = "done"
    /\ \E p \in AdjacentPairs :
           /\ HistoryValue(facts, p[1], p[2]) = <<"$", "0">>
           /\ CurrOf(p) # 0
           /\ EmittedCount(p) = 0
    /\ Len(anomalies) > 0

\* ------------------------------------------------------------------------
\* Properties of compare_sections
\* ------------------------------------------------------------------------

\* C4: at every point of compare_sections, and so in what it returns, every
\* record of the results list has its old and its new quote in the same regime.
C4_SameRegimeRecords ==
    \A i \in DOMAIN cs_results :
        detect_regime(cs_results[i].quote_old) = detect_regime(cs_results[i].quote_new)

\* compare_sections returned an accounting-regime record whose quotes differ,
\* after a call to the capability.
C4_Witness ==
    /\ cs_pc = "returned"
    /\ cs_calls = 1
    /\ \E i \in DOMAIN cs_results :
           /\ detect_regime(cs_results[i].quote_old) = "ACCOUNTING"
           /\ cs_results[i].quote_old # cs_results[i].quote_new

\* The text is None, empty, or shorter than 100 characters
BelowMinimum(text) == ~text.present \/ text.len < 100

\* C7: once compare_sections has left its entry with either text missing,
\* empty or shorter than 100 characters, it has returned an empty list and
\* has made no call to the extraction capability.
C7_ShortTextNoCall ==
    (cs_pc \in {"loop", "returned", "raised"}
        /\ (BelowMinimum(text_previous) \/ BelowMinimum(text_current)))
    => (cs_pc = "returned" /\ cs_results = <<>> /\ cs_calls = 0)

\* A 40-character previous text with a valid current text returned [] with
\* zero calls.
C7_Witness ==
    /\ cs_pc = "returned"
    /\ text_previous = TextOfLen(40)
    /\ text_current = TextOfLen(100)
    /\ cs_results = <<>>
    /\ cs_calls = 0

\* ------------------------------------------------------------------------
\* Properties of validate_insights
\* ------------------------------------------------------------------------

\* Noise scores are near zero: -0.5 to +0.5, in tenths
NOISE_LIMIT == 5

ValidatedMetrics ==
    {vi_insights[p[1]].metrics[p[2]] : p \in AllMetrics(vi_insights)}

\* The score sign disagrees with the classification
SignMismatch(m) ==
    \/ m.signal_classification = "Positive" /\ ~(m.signal_score > 0)
    \/ m.signal_classification = "Negative" /\ ~(m.signal_score < 0)
    \/ m.signal_classification = "Noise"
           /\ (m.signal_score > NOISE_LIMIT \/ m.signal_score < 0 - NOISE_LIMIT)

\* C5: when validate_insights has returned, no record whose score sign
\* disagrees with its classification has status verified, whether the
\* validating capability answered for its section or failed.
C5_NoMismatchVerified ==
    vi_pc = "done" =>
        \A m \in ValidatedMetrics : SignMismatch(m) => m.validation_status # "verified"

\* quote_new holds a number that the current-quarter text does not
FabricatedNumber(m) == ~(NumbersIn(m.quote_new) \subseteq NumbersIn(vi_text_curr))

\* C6: when validate_insights has returned, no record whose quote_new holds
\* a number absent from the current-quarter source text has status verified.
C6_NoFabricatedNumberVerified ==
    vi_pc = "done" =>
        \A m \in ValidatedMetrics : FabricatedNumber(m) => m.validation_status # "verified"

\* ---- analyze_all_companies ----

\* The key the report must not repeat: (Company lowercased, Quarter_Current,
\* Quote_New lowercased)
ReportKey(r) == <<Lower(r.Company), r.Quarter_Current, Lower(r.Quote_New)>>

\* The positions of results that hold the first record of their key
FirstOccurrences ==
    {i \in DOMAIN results :
        \A j \in DOMAIN results : j < i => ReportKey(results[j]) # ReportKey(results[i])}

\* The k-th smallest position of a set of positions
NthPosition(ps, k) == CHOOSE i \in ps : Cardinality({j \in ps : j <= i}) = k

\* C1: in every report analyze_all_companies returns, the records are exactly
\* the first record of each key (Company lowercased, Quarter_Current, Quote_New
\* lowercased) of the merged results list, in the order of that list, so that
\* no two records of the report share the key.
C1_GlobalDedupFirstOccurrence ==
    az_pc = "returned" =>
        /\ Len(final) = Cardinality(FirstOccurrences)
        /\ \A k \in DOMAIN final : final[k] = results[NthPosition(FirstOccurrences, k)]
        /\ \A i, j \in DOMAIN final :
              i # j => ReportKey(final[i]) # ReportKey(final[j])

\* A returned report from which the pass dropped a record that differs from
\* the kept one only by the case of the company or of the quote
C1_Witness ==
    /\ az_pc = "returned"
    /\ Len(final) >= 2
    /\ \E i, j \in DOMAIN results :
          /\ i < j
          /\ results[i].Company # results[j].Company
          /\ ReportKey(results[i]) = ReportKey(results[j])
    /\ \E i, j \in DOMAIN results :
          /\ i < j
          /\ results[i].Quote_New # results[j].Quote_New
          /\ ReportKey(results[i]) = ReportKey(results[j])

Range(seq) == {seq[i] : i \in DOMAIN seq}

\* The consecutive quarter pairs of the n-th company of parsed_data
PairsOf(n) ==
    LET qs == SortQuarters(MeaningfulQuarters(parsed_data[n].quarters_data))
    IN  {Pair(parsed_data[n].company, qs[i], qs[i - 1]) : i \in 2..Len(qs)}

PlannedPairs == UNION {PairsOf(n) : n \in DOMAIN parsed_data}

\* The records the cache holds under the keys of a pair
CachedRecordsOf(p) == UNION {Range(cache[k]) : k \in PairKeys(p) \cap DOMAIN cache}

AllKeysCached(p) == PairKeys(p) \subseteq DOMAIN cache

ScheduledAt(p) == {i \in DOMAIN pairs_to_analyze : pairs_to_analyze[i] = p}

\* A real run right after the planning loop
AfterPlan ==
    /\ ~dry_run
    /\ az_pc = "workers" \/ (az_pc = "dedup" /\ pairs_to_analyze = <<>>)

\* A real run after the workers of the scheduled pairs have been joined
AfterJoin == ~dry_run /\ pairs_to_analyze # <<>> /\ az_pc \in {"dedup", "raised", "returned"}

\* Whether compare_sections has something to compare for a section of a pair
Comparable(p, s) ==
    LET qd == QuartersOf(parsed_data, p.company)
    IN  /\ ~BelowMinimum(SectionText(qd[p.q_prev], s))
        /\ ~BelowMinimum(SectionText(qd[p.q_curr], s))

\* C2: in a real run, a pair's cached records are reused only if its three
\* section keys are all in the cache; if one is missing, none of the pair's
\* cached records enters the results and the pair is scheduled once, and each
\* of its three sections is compared afresh, a cached one included.
C2_PartialCacheIsFullMiss ==
    /\ AfterPlan =>
          \A p \in PlannedPairs :
              IF AllKeysCached(p)
              THEN /\ ScheduledAt(p) = {}
                   /\ CachedRecordsOf(p) \subseteq Range(results)
              ELSE /\ Cardinality(ScheduledAt(p)) = 1
                   /\ CachedRecordsOf(p) \cap Range(results) = {}
    /\ AfterJoin =>
          \A i \in DOMAIN pairs_to_analyze : \A s \in Sections :
              /\ tasks[i][s].state # "pending"
              /\ tasks[i][s].called <=> Comparable(pairs_to_analyze[i], s)

\* A real run whose workers have finished, where a pair with cached records
\* under some of its keys was scheduled and a cached section was compared
\* afresh, next to a fully cached pair whose records were reused
C2_Witness ==
    /\ AfterJoin
    /\ \E i \in DOMAIN pairs_to_analyze :
          /\ CachedRecordsOf(pairs_to_analyze[i]) # {}
          /\ ~AllKeysCached(pairs_to_analyze[i])
          /\ \E s \in Sections :
                /\ get_cache_key(pairs_to_analyze[i].company, pairs_to_analyze[i].q_prev,
                                 pairs_to_analyze[i].q_curr, s) \in DOMAIN cache
                /\ tasks[i][s].called
    /\ \E p \in PlannedPairs : AllKeysCached(p) /\ cache_hits = 1

\* C3: in a second run on the same parsed data with the cache the first run
\* left, no capability call is made for a pair the first run computed, and a
\* second run that returns after a returned first run returns the same
\* records and the same verdict.
C3_SecondRunReusesCache ==
    az_run > 1 =>
        /\ \A i \in DOMAIN tasks : \A s \in Sections :
              pairs_to_analyze[i] \in prev_run.computed => ~tasks[i][s].called
        /\ (az_pc = "returned" /\ prev_run.outcome = "returned") =>
              (final = prev_run.final /\ verdict = prev_run.verdict)

\* C8: when the capability call of a section raises, the run still returns,
\* and the records of the sections that did not raise are in the report.
C8_RaisedSectionRunContinues ==
    (/\ az_pc \in {"raised", "returned"}
     /\ \E i \in DOMAIN tasks : PairRaised(tasks[i])) =>
        /\ az_pc = "returned"
        /\ \A i \in DOMAIN tasks : \A s \in Sections :
              \A k \in DOMAIN tasks[i][s].results :
                  \E r \in Range(final) :
                      ReportKey(r) = ReportKey(PairRecord(pairs_to_analyze[i],
                                                          tasks[i][s].results[k]))

\* ---- compute_overall_signal and run_pipeline ----

RECURSIVE KeptMetrics(_)
\* The metrics of a list that are verified or flagged, in order
KeptMetrics(ms) ==
    IF ms = <<>> THEN <<>>
    ELSE (IF Head(ms).validation_status # "removed" THEN <<Head(ms)>> ELSE <<>>)
             \o KeptMetrics(Tail(ms))

\* The insights with their removed metrics left out
WithoutRemoved(insights) ==
    [i \in DOMAIN insights |-> [insights[i] EXCEPT !.metrics = KeptMetrics(@)]]

\* The eligible scores of the validated insights, in tenths
EligibleScores == AllScores(WithoutRemoved(rp_insights))

\* C11: the overall score is the mean of the eligible scores (to the nearest
\* hundredth) within [-10, +10]; the label is Positive when the mean is above
\* 2.0, Negative when below -2.0, Mixed when otherwise its magnitude is above
\* 0.5 and Noise otherwise; with no eligible score the result is (0.0, Noise).
C11_MeanAndThresholds ==
    rp_pc = "done" =>
        LET n == Len(EligibleScores)
            total == SumSeq(EligibleScores) * 10
        IN  IF n = 0 THEN rp_overall = [overall_score |-> 0, signal |-> "Noise"]
            ELSE /\ 2 * Abs(rp_overall.overall_score * n - total) <= n
                 /\ rp_overall.overall_score >= 0 - 1000
                 /\ rp_overall.overall_score <= 1000
                 /\ rp_overall.signal =
                        IF total > 200 * n THEN "Positive"
                        ELSE IF total < 0 - 200 * n THEN "Negative"
                        ELSE IF Abs(total) > 50 * n THEN "Mixed"
                        ELSE "Noise"

\* C12: the overall score and signal of the payload are the ones computed
\* over the verified and flagged records alone; a removed record's score has
\* no influence.
C12_RemovedExcluded ==
    rp_pc = "done" => rp_overall = compute_overall_signal(WithoutRemoved(rp_insights))

\* ---- validate_section on a failing capability ----

\* The records of the sections whose validating call raised
FallbackMetrics ==
    {p \in AllMetrics(vi_insights) : vi_task[p[1]] = "fallback"}

MetricAt(p) == vi_insights[p[1]].metrics[p[2]]

\* C13: when the validating capability call of a section raises,
\* validate_section returns the section, and every record of the section
\* whose score sign disagrees with its classification is flagged with a
\* non-empty note.
C13_FallbackFlagsMismatch ==
    \A p \in FallbackMetrics :
        SignMismatch(MetricAt(p)) =>
            /\ MetricAt(p).validation_status = "flagged"
            /\ MetricAt(p).validation_note # <<>>

\* C14: when validate_insights has returned, a record of a section whose
\* validating call raised is not a plain verified record (it has another
\* status or a note), and validation_score counts no such record as verified.
C14_UnresolvedNotVerified ==
    vi_pc = "done" =>
        /\ \A p \in FallbackMetrics :
              \/ MetricAt(p).validation_status # "verified"
              \/ MetricAt(p).validation_note # <<>>
        /\ vi_stats.verified <=
              Cardinality({p \in AllMetrics(vi_insights) \ FallbackMetrics :
                              MetricAt(p).validation_status = "verified"})

\* The section comparisons of the pair that have not returned yet
ComparisonsRunning == {i \in DOMAIN rp_compare : rp_compare[i].state = "pending"}

\* The validations of the pair that have not completed yet
ValidationsRunning == {i \in DOMAIN rp_validate : rp_validate[i] = "pending"}

\* C15: validation of the pair has started only if every section comparison
\* has returned or failed, and it is given the insight of every comparison
\* that returned; the overall signal is computed only when the validation of
\* every section has completed.
C15_StagesInOrder ==
    /\ (rp_pc \in {"validate", "done"} \/ rp_validate # <<>>) =>
          /\ ComparisonsRunning = {}
          /\ Len(rp_insights) =
                 Cardinality({i \in DOMAIN rp_compare : rp_compare[i].state = "returned"})
          /\ \A i \in DOMAIN rp_compare :
                 rp_compare[i].state = "returned" =>
                     \E k \in DOMAIN rp_insights :
                         rp_insights[k].section_name = rp_compare[i].section_name
    /\ (rp_pc = "done" \/ rp_overall.signal # "none") =>
          /\ ValidationsRunning = {}
          /\ Len(rp_validate) = Len(rp_insights)

\* A finished run in which one comparison failed, another returned records,
\* and those records were validated before the signal was computed
C15_Witness ==
    /\ rp_pc = "done"
    /\ \E i \in DOMAIN rp_compare : rp_compare[i].state = "failed"
    /\ \E k \in DOMAIN rp_insights :
           /\ rp_insights[k].metrics # <<>>
           /\ rp_validate[k] = "validated"
    /\ rp_overall.signal # "none"

\* ---- save_facts ----

\* C16: once every concurrent save_facts call has returned, the fact store
\* holds every fact of every writer.
C16_NoLostUpdate ==
    (\A w \in Writers : fs_pc[w] = "done") =>
        /\ fs_file.state = "ok"
        /\ \A w \in Writers : Range(FactsOf(w)) \subseteq Range(fs_file.data)

\* ---- load_analysis_cache ----

\* C17: when the cache file is missing or cannot be decoded, the run goes on
\* with an empty cache: no pair is a cache hit, no cached record enters the
\* results, and a real run schedules every pair.
C17_UnreadableCacheIsColdCache ==
    (cache_file.state # "ok" /\ az_pc # "start") =>
        /\ cache = EmptyCache
        /\ cache_hits = 0
        /\ az_error # "cache"
        /\ AfterPlan => results = <<>>
        /\ ~dry_run => \A p \in PlannedPairs : Cardinality(ScheduledAt(p)) = 1

\* A real run on a cache file that cannot be decoded although it spells the
\* entries of a whole pair: the pairs were scheduled and their workers ran
C17_Witness ==
    /\ AfterJoin
    /\ cache_file.state = "corrupt"
    /\ cache_file.data # EmptyCache
    /\ PlannedPairs # {}
    /\ \A p \in PlannedPairs : ScheduledAt(p) # {}

\* ---- downgrade_signal ----

\* The stored quote_new holds a one-time keyword, in any case
HoldsOneTimeKeyword(quote) ==
    \E k \in ONE_TIME_KEYWORDS :
        \E i \in 1..Len(quote) : \E j \in i..Len(quote) : Lower(SubSeq(quote, i, j)) = k

\* C18: every record compare_sections has stored whose quote_new holds a
\* one-time keyword, in any case, has signal Noise.
C18_OneTimeIsNoise ==
    \A i \in DOMAIN cs_results :
        HoldsOneTimeKeyword(cs_results[i].quote_new) =>
            cs_results[i].signal_classification = "Noise"

\* compare_sections returned, after a call, a record whose quote_new holds a
\* one-time keyword, with signal Noise
C18_Witness ==
    /\ cs_pc = "returned"
    /\ cs_calls = 1
    /\ \E i \in DOMAIN cs_results :
           /\ HoldsOneTimeKeyword(cs_results[i].quote_new)
           /\ cs_results[i].signal_classification = "Noise"

\* ---- detect_regime ----

RegimeNames == {"ACCOUNTING", "ONE_TIME", "GUIDANCE", "OPERATING"}

\* The lowercased text holds a keyword of the set
Mentions(text, keywords) == AnyKeyword(Lower(text), keywords)

\* C19: detect_regime always returns one of the four regimes: Accounting when
\* the lowercased text holds an accounting keyword, otherwise OneTime when it
\* holds a one-time keyword, otherwise Guidance when it holds a guidance
\* keyword, otherwise Operating.
C19_RegimePriority ==
    rg_pc = "returned" =>
        /\ rg_regime \in RegimeNames
        /\ rg_regime = "ACCOUNTING" <=> Mentions(rg_text, ACCOUNTING_KEYWORDS)
        /\ rg_regime = "ONE_TIME" <=>
              /\ ~Mentions(rg_text, ACCOUNTING_KEYWORDS)
              /\ Mentions(rg_text, ONE_TIME_KEYWORDS)
        /\ rg_regime = "GUIDANCE" <=>
              /\ ~Mentions(rg_text, ACCOUNTING_KEYWORDS)
              /\ ~Mentions(rg_text, ONE_TIME_KEYWORDS)
              /\ Mentions(rg_text, GUIDANCE_KEYWORDS)
        /\ rg_regime = "OPERATING" <=>
              /\ ~Mentions(rg_text, ACCOUNTING_KEYWORDS)
              /\ ~Mentions(rg_text, ONE_TIME_KEYWORDS)
              /\ ~Mentions(rg_text, GUIDANCE_KEYWORDS)

\* detect_regime returned OneTime for a text with upper-case letters that
\* holds a one-time and a guidance keyword and no accounting keyword
C19_Witness ==
    /\ rg_pc = "returned"
    /\ rg_text # Lower(rg_text)
    /\ Mentions(rg_text, ONE_TIME_KEYWORDS)
    /\ Mentions(rg_text, GUIDANCE_KEYWORDS)
    /\ ~Mentions(rg_text, ACCOUNTING_KEYWORDS)
    /\ rg_regime = "ONE_TIME"

\* ---- dry run ----

\* C20: with dry_run, analyze_all_companies schedules no pair and starts no
\* section comparison, synthesizes no verdict, raises nothing, leaves the
\* cache file as it found it, and returns an empty list with verdict None.
C20_DryRunDoesNothing ==
    /\ [](dry_run =>
            /\ pairs_to_analyze = <<>>
            /\ tasks = <<>>
            /\ results = <<>>
            /\ cache_hits = 0
            /\ verdict = None
            /\ az_pc \in {"start", "dedup", "returned"}
            /\ az_pc = "returned" => final = <<>>)
    /\ [][dry_run => cache_file' = cache_file]_vars

\* A dry run has returned although the cache file holds every key of a pair
\* of the parsed data, with records
C20_Witness ==
    /\ dry_run
    /\ az_pc = "returned"
    /\ final = <<>>
    /\ \E p \in PlannedPairs :
           /\ PairKeys(p) \subseteq DOMAIN load_analysis_cache(cache_file)
           /\ \E k \in PairKeys(p) : load_analysis_cache(cache_file)[k] # <<>>

\* ---- run_pipeline under partial failures ----

\* The sections whose two thematic agents and whose comparison returned
SucceededSections ==
    SelectSeq(PipelineSections,
              LAMBDA name : \E i \in DOMAIN rp_compare :
                                /\ rp_compare[i].section_name = name
                                /\ rp_compare[i].state = "returned")

\* C21: whatever subset of the thematic-agent calls, the section comparisons
\* and the section validations raises, run_pipeline completes, and the
\* insights of its payload are those of exactly the sections whose agents
\* and comparison returned, in order, a failed validation dropping none.
\* Completion: every step moves one task or the run forward, and until the
\* payload is assembled some step can always be taken.
C21_PartialFailureStillCompletes ==
    /\ rp_pc \in {"extract", "compare", "validate"} => ENABLED NextPipeline
    /\ rp_pc = "done" =>
           /\ [k \in DOMAIN rp_insights |-> rp_insights[k].section_name] = SucceededSections
           /\ \A i \in DOMAIN rp_compare :
                  rp_compare[i].state = "returned" <=>
                      /\ rp_agents["prev"][i] = "returned"
                      /\ rp_agents["curr"][i] = "returned"
                      /\ \E k \in DOMAIN rp_insights :
                             rp_insights[k].section_name = rp_compare[i].section_name

\* C21: a run has completed with a payload of one section after a thematic
\* agent failed for one section, the comparison raised for another and the
\* validation raised for the third
C21_Witness ==
    /\ rp_pc = "done"
    /\ \E q \in PipelineQuarters, i \in DOMAIN PipelineSections : rp_agents[q][i] = "failed"
    /\ \E i \in DOMAIN rp_compare : rp_compare[i].state = "failed"
    /\ \E k \in DOMAIN rp_validate : rp_validate[k] = "fallback"
    /\ Len(rp_insights) = 1

\* ---- compare_sections: empty quotes, duplicates, unparseable output ----

\* A quote that is not empty and not whitespace alone
HasText(quote) == \E i \in DOMAIN quote : quote[i] \notin Whitespace

\* C22: at every point of compare_sections, and so in what it returns, no
\* record of the results list has an empty or whitespace-only quote_old or
\* quote_new.
C22_NoEmptyQuoteRecord ==
    \A i \in DOMAIN cs_results :
        HasText(cs_results[i].quote_old) /\ HasText(cs_results[i].quote_new)

\* C22: compare_sections returned one record after its last candidate, with a
\* whitespace-only quote_new and a quote_old in the same regime, was rejected
C22_Witness ==
    /\ cs_pc = "returned"
    /\ Len(cs_results) = 1
    /\ cs_last # <<>>
    /\ cs_last[1].quote_new # <<>>
    /\ ~HasText(cs_last[1].quote_new)
    /\ HasText(cs_last[1].quote_old)
    /\ is_comparable(Strip(cs_last[1].quote_old), Strip(cs_last[1].quote_new))

\* C24: an iteration whose candidate passed the empty-quote and regime
\* checks rejects it exactly when a record accepted earlier in the call has
\* both its lowercased quote_new and its lowercased description; and an
\* iteration that rejects its candidate leaves seen_new and seen_desc as
\* they were.
C24_DuplicateIsSamePair ==
    [][cs_todo' = cs_todo - 1 =>
          LET ch == cs_last'[1]
              quote_old == Strip(ch.quote_old)
              quote_new == Strip(ch.quote_new)
              desc == Strip(ch.description_of_change)
              passed == /\ quote_old # <<>>
                        /\ quote_new # <<>>
                        /\ is_comparable(quote_old, quote_new)
              duplicate == \E i \in DOMAIN cs_results :
                               /\ Lower(cs_results[i].quote_new) = Lower(quote_new)
                               /\ Lower(cs_results[i].description_of_change) = Lower(desc)
              rejected == cs_results' = cs_results
          IN  /\ passed => (rejected <=> duplicate)
              /\ ~passed => rejected
              /\ rejected => seen_new' = seen_new /\ seen_desc' = seen_desc]_vars

\* C27: when the capability answered with a content that holds no
\* well-formed structured block, compare_sections does not raise: it goes on
\* with zero candidates and returns an empty list.
C27_NoBlockIsZeroCandidates ==
    (cs_content # <<>> /\ ~(cs_content[1].has_block /\ cs_content[1].well_formed)) =>
        /\ cs_pc \in {"loop", "returned"}
        /\ cs_todo = 0
        /\ cs_results = <<>>

\* ---- analyze_all_companies: the cache after a computed pair ----

\* The cache keys of the pairs this run scheduled
ScheduledKeys == UNION {PairKeys(pairs_to_analyze[i]) : i \in DOMAIN pairs_to_analyze}

\* A real run whose scheduled pairs were all computed, no section raising
PairsComputed == AfterJoin /\ \A i \in DOMAIN tasks : ~PairRaised(tasks[i])

\* C23: once a real run has computed its uncached pairs, the cache file is
\* readable and holds, under each of the three section keys of each computed
\* pair, the records that section produced (an empty list for none); and the
\* join leaves the entries of every other key as they were.
C23_ComputedPairIsCached ==
    /\ [](PairsComputed =>
             /\ cache_file.state = "ok"
             /\ \A i \in DOMAIN pairs_to_analyze :
                    \A k \in PairKeys(pairs_to_analyze[i]) :
                        /\ k \in DOMAIN cache_file.data
                        /\ cache_file.data[k] =
                               SelectSeq(PairResults(pairs_to_analyze[i], tasks[i]),
                                         LAMBDA r : r.Section =
                                                        SectionOfKey(pairs_to_analyze[i], k)))
    /\ [][(az_pc = "workers" /\ az_pc' # "workers") =>
              \A k \in DOMAIN cache \ ScheduledKeys :
                  k \in DOMAIN cache' /\ cache'[k] = cache[k]]_vars

\* ---- analyze_all_companies: the pairs of quarters ----

\* A quarter of the n-th company with a section of at least 100 characters
HasData(n, q) ==
    \E sec \in Sections :
        /\ sec \in DOMAIN parsed_data[n].quarters_data[q]
        /\ parsed_data[n].quarters_data[q][sec].present
        /\ parsed_data[n].quarters_data[q][sec].len >= 100

QuartersWithData(n) == {q \in DOMAIN parsed_data[n].quarters_data : HasData(n, q)}

\* Chronological order of two labels "<quarter>_<year>"
Earlier(q1, q2) ==
    \/ LabelRank(q1[3]) < LabelRank(q2[3])
    \/ LabelRank(q1[3]) = LabelRank(q2[3]) /\ LabelRank(q1[1]) < LabelRank(q2[1])

\* The pairs of quarters with data of the n-th company that follow each other
\* with no quarter with data in between
ConsecutivePairs(n) ==
    {Pair(parsed_data[n].company, q2, q1) : <<q1, q2>> \in
        {qq \in QuartersWithData(n) \X QuartersWithData(n) :
            /\ Earlier(qq[1], qq[2])
            /\ \A q3 \in QuartersWithData(n) : ~(Earlier(qq[1], q3) /\ Earlier(q3, qq[2]))}}

AllConsecutivePairs == UNION {ConsecutivePairs(n) : n \in DOMAIN parsed_data}

Parseable(val_str) == IsNumber(Strip(RemoveChars(val_str, {"$", ",", "%"})))

\* C25: detect_anomalies emits no anomaly for an adjacent pair of periods
\* whose previous or current value string is not a number.
C25_UnparseableExcluded ==
    an_pc = "done" =>
        \A p \in AdjacentPairs :
            (\/ ~Parseable(HistoryValue(facts, p[1], p[2]))
             \/ ~Parseable(HistoryValue(facts, p[1], p[3]))) => EmittedCount(p) = 0

\* ---- analyze_all_companies: the joining thread ----

\* The records of a scheduled pair in the order its sections were submitted
InSubmissionOrder(i) ==
    LET changes == tasks[i]["MD&A"].results \o tasks[i]["Risk_Factors"].results
                       \o tasks[i]["Accounting"].results
    IN  [k \in DOMAIN changes |-> PairRecord(pairs_to_analyze[i], changes[k])]

RECURSIVE FirstPairs(_)
\* The records of the first k scheduled pairs, pair after pair
FirstPairs(k) == IF k = 0 THEN <<>> ELSE FirstPairs(k - 1) \o InSubmissionOrder(k)

\* How many pairs the join took before it ended: all of them, or those up to
\* the exception that ended it
JoinedPairs(error) ==
    LET raised == {i \in DOMAIN tasks : PairRaised(tasks[i])}
    IN  IF error = "capability" THEN (CHOOSE i \in raised : \A j \in raised : i <= j) - 1
        ELSE IF error = "NameError" THEN 1
        ELSE Len(pairs_to_analyze)

\* C28: a worker task that completes writes neither the results list nor the
\* cache nor the cache file; the join alone extends the results, with the
\* records of the pairs in the order the pairs were submitted and, within a
\* pair, in the order of its sections, whatever order the tasks completed in;
\* and a cache written by a join that ended without exception holds, for
\* each section key of each pair, that section's records.
C28_JoinAloneWritesInOrder ==
    [][/\ (az_pc = "workers" /\ az_pc' = "workers") =>
              (results' = results /\ cache' = cache /\ cache_file' = cache_file)
       /\ (az_pc = "workers" /\ az_pc' # "workers") =>
              /\ results' = results \o FirstPairs(JoinedPairs(az_error'))
              /\ az_error' # "none" => (cache' = cache /\ cache_file' = cache_file)
              /\ az_error' = "none" =>
                     \A i \in DOMAIN pairs_to_analyze : \A sec \in Sections :
                         cache'[get_cache_key(pairs_to_analyze[i].company,
                                              pairs_to_analyze[i].q_prev,
                                              pairs_to_analyze[i].q_curr, sec)]
                             = SelectSeq(InSubmissionOrder(i), LAMBDA r : r.Section = sec)]_vars

\* C28: the task submitted last for a pair has completed with a record while
\* the one submitted first is still running, and the results list and the
\* cache are as the planning loop left them
C28_Witness ==
    /\ az_pc = "workers"
    /\ \E i \in DOMAIN tasks :
          /\ tasks[i]["Accounting"].state = "returned"
          /\ tasks[i]["Accounting"].results # <<>>
          /\ tasks[i]["MD&A"].state = "pending"
    /\ results # <<>>
    /\ cache = load_analysis_cache(cache_file)

\* ---- research sessions ----

\* C29: a session run_research_task returns is, when the call returns, the
\* content of the file under its session_id, so list_research_sessions lists
\* it; replay_research on the id of a session that was returned never
\* answers "Session not found", gives back the original session, and saves
\* its rerun under an id no session had, leaving every earlier file as it
\* was.
C29_ReturnedSessionIsReplayable ==
    /\ [](ss_returned.op = "run_research_task" =>
             /\ ss_returned.sessions[1].session_id \in DOMAIN ss_files
             /\ ss_files[ss_returned.sessions[1].session_id] = ss_returned.sessions[1])
    /\ [](ss_issued \subseteq DOMAIN ss_files)
    /\ [](ss_returned.op = "list_research_sessions" => ss_issued \subseteq ss_returned.ids)
    /\ [][(ss_returned'.op = "replay_research" /\ ss_returned'.arg \in ss_issued
            /\ ss_returned' # ss_returned) =>
              /\ ss_returned'.error = "none"
              /\ ss_returned'.sessions[1] = ss_files[ss_returned'.arg]
              /\ ss_returned'.sessions[2].session_id \notin 1..ss_count
              /\ ss_returned'.sessions[2].session_id \in DOMAIN ss_files'
              /\ \A k \in DOMAIN ss_files : ss_files'[k] = ss_files[k]]_vars

\* ---- validate_section: what it may change ----

\* The corrected quotes a validation result can carry
CorrectedQuotes ==
    {v.corrected_quote_old : v \in ValidationPool} \cup
    {v.corrected_quote_new : v \in ValidationPool}

\* C30: every step of validate_section (the report applied, or the local
\* check after a failed call) keeps the insights and, in each, every metric
\* at its position, removed ones included; of a metric it leaves subtopic,
\* signal_classification and signal_score as they were, and a quote differs
\* afterwards only when the validating capability answered for that section
\* and the new quote is a non-empty corrected quote of a validation result.
C30_ValidateSectionFrame ==
    [][ /\ DOMAIN vi_insights' = DOMAIN vi_insights
        /\ \A i \in DOMAIN vi_insights :
              /\ vi_insights'[i].section_name = vi_insights[i].section_name
              /\ DOMAIN vi_insights'[i].metrics = DOMAIN vi_insights[i].metrics
              /\ \A j \in DOMAIN vi_insights[i].metrics :
                    LET old == vi_insights[i].metrics[j]
                        new == vi_insights'[i].metrics[j]
                    IN  /\ new.subtopic = old.subtopic
                        /\ new.signal_classification = old.signal_classification
                        /\ new.signal_score = old.signal_score
                        /\ \A f \in {"quote_old", "quote_new"} :
                              new[f] # old[f] =>
                                  /\ vi_task[i] = "pending"
                                  /\ vi_task'[i] = "validated"
                                  /\ new[f] # <<>>
                                  /\ new[f] \in CorrectedQuotes ]_vars

\* The capability answered for a section of two metrics: the first is marked
\* removed and is still first, the second is flagged and carries the
\* corrected quote in place of the one it was created with
C30_Witness ==
    /\ vi_pc = "gather"
    /\ vi_task[1] = "validated"
    /\ Len(vi_insights[1].metrics) = 2
    /\ vi_insights[1].metrics[1].subtopic = "Margin"
    /\ vi_insights[1].metrics[1].validation_status = "removed"
    /\ vi_insights[1].metrics[2].subtopic = "Revenue Growth"
    /\ vi_insights[1].metrics[2].validation_status = "flagged"
    /\ vi_insights[1].metrics[2].quote_new = <<"grew", "18", "%">>
    /\ vi_insights[1].metrics[2].quote_new # QuoteNewOf("Revenue Growth")

====
